---- MODULE Spec2Model ----
(***************************************************************************)
(* Model of the autounattend.xml build driver (unattended/merge.ts) and of *)
(* the XML validator (src/utils/xmlValidator.ts).                          *)
(*                                                                         *)
(* Text is a sequence of symbols.  The characters that the assembler and   *)
(* the validator look at one by one are symbols of their own:              *)
(*     "{"  "}"  "$"  "&"  "BACKTICK"  "QUOTE"                             *)
(* Every other symbol is an atom: a fixed run of characters that holds     *)
(* none of the six above (AtomText gives the run).  A placeholder such as  *)
(* {{WINDOWSPE_PASS}} is the five symbols "{" "{" "WINDOWSPE_PASS" "}" "}".*)
(***************************************************************************)
EXTENDS Integers, Sequences, FiniteSets, TLC

VARIABLES
  templateFile,   \* the file at templatePath
  passFiles,      \* the file at passesDir/<pass>.xml, for each pass
  outputFile,     \* the file at outputPath
  validator,      \* whether this.validator is an XmlValidator (FALSE: null)
  buildStats,     \* this.buildStats
  calls,          \* build() calls made on the current builder instance
  results,        \* one record per build() call so far: what it was given and returned
  edits,          \* changes made to the input files so far
  vdoc,           \* the file a direct validateAutounattendXml call is given
  vres,           \* what the direct calls returned
  run,            \* the run of run.ps1: its switches, where it stands, the steps it took
  extracted,      \* the directory iso\extracted
  lastExitCode,   \* $LASTEXITCODE of the PowerShell session
  mounted,        \* whether the source image is attached
  ext,            \* the runs of extract-iso.ps1 made on their own so far
  race,           \* two merge.js processes running side by side: where each stands
  mon,            \* the performanceMonitor singleton and the monitored calls made
  cfg             \* a ConfigManager, its file, and the updateConfig calls made

scriptVars == <<run, extracted, lastExitCode, mounted, ext, race, mon, cfg>>

vars == <<templateFile, passFiles, outputFile, validator, buildStats,
          calls, results, edits, vdoc, vres, scriptVars>>

(***************************************************************************)
(* Bounds of the model.                                                    *)
(***************************************************************************)
MaxBuilds == 2      \* build() calls observed in one behaviour
MaxEdits == 1       \* changes made to the input files between builds
MaxSpecial == 1     \* fragment files that differ from the plain fragment <A/>
MaxDocLen == 5      \* symbols of a document handed to the validator directly
MaxTicks == 1       \* milliseconds that pass between two readings of the clock
MaxPasswords == 2   \* password and auto-logon elements of a document

(***************************************************************************)
(* Symbols.                                                                *)
(***************************************************************************)
Chars == {"{", "}", "$", "&", "BACKTICK", "QUOTE"}

AtomText ==
  [ DECL   |-> "<?xml version=\"1.0\" encoding=\"utf-8\"?>",
    DECL11 |-> "<?xml version=\"1.1\"?>",
    ROOT   |-> "<unattend xmlns=\"urn:schemas-microsoft-com:unattend\">",
    ROOTX  |-> "<unattend xmlns:w=\"x\" xmlns=\"urn:schemas-microsoft-com:unattend\">",
    CLOSE  |-> "</unattend>",
    A      |-> "<A/>",
    B      |-> "<B/>",
    OLD    |-> "<!-- output of an earlier run -->",
    SETUP  |-> "<component name=\"Microsoft-Windows-Setup\" processorArchitecture=\"amd64\"/>",
    SHELL  |-> "<component name=\"Microsoft-Windows-Shell-Setup\" processorArchitecture=\"x86\"/>",
    FOO    |-> "FOO",
    WINDOWSPE_PASS        |-> "WINDOWSPE_PASS",
    OFFLINESERVICING_PASS |-> "OFFLINESERVICING_PASS",
    GENERALIZE_PASS       |-> "GENERALIZE_PASS",
    SPECIALIZE_PASS       |-> "SPECIALIZE_PASS",
    AUDITSYSTEM_PASS      |-> "AUDITSYSTEM_PASS",
    AUDITUSER_PASS        |-> "AUDITUSER_PASS",
    OOBESYSTEM_PASS       |-> "OOBESYSTEM_PASS" ]

Atoms == DOMAIN AtomText

\* UTF-8 byte length of a symbol (all symbols are ASCII)
ByteLen(sym) ==
  CASE sym \in Chars -> 1
    [] sym = "DECL" -> 38
    [] sym = "DECL11" -> 21
    [] sym = "ROOT" -> 53
    [] sym = "ROOTX" -> 67
    [] sym = "CLOSE" -> 11
    [] sym \in {"A", "B"} -> 4
    [] sym = "OLD" -> 33
    [] sym = "SETUP" -> 73
    [] sym = "SHELL" -> 77
    [] sym = "FOO" -> 3
    [] sym = "WINDOWSPE_PASS" -> 14
    [] sym = "OFFLINESERVICING_PASS" -> 21
    [] sym = "GENERALIZE_PASS" -> 15
    [] sym = "SPECIALIZE_PASS" -> 15
    [] sym = "AUDITSYSTEM_PASS" -> 16
    [] sym = "AUDITUSER_PASS" -> 14
    [] sym = "OOBESYSTEM_PASS" -> 15
    [] sym = "BYTE" -> 1

RECURSIVE ByteLength(_)
ByteLength(s) == IF s = <<>> THEN 0 ELSE ByteLen(Head(s)) + ByteLength(Tail(s))

(***************************************************************************)
(* String primitives of the JavaScript runtime.                            *)
(***************************************************************************)
\* String.prototype.indexOf, 1-based; 0 when pat does not occur
RECURSIVE IndexFrom(_, _, _)
IndexFrom(s, pat, i) ==
  IF i + Len(pat) - 1 > Len(s) THEN 0
  ELSE IF \A k \in 1..Len(pat) : s[i + k - 1] = pat[k] THEN i
  ELSE IndexFrom(s, pat, i + 1)
IndexOf(s, pat) == IndexFrom(s, pat, 1)

\* GetSubstitution for a string pattern (no capture groups): $$, $&, $ backtick, $ quote
RECURSIVE GetSubstitution(_, _, _, _, _)
GetSubstitution(matched, before, after, repl, i) ==
  IF i > Len(repl) THEN <<>>
  ELSE IF repl[i] = "$" /\ i < Len(repl) /\ repl[i + 1] \in {"$", "&", "BACKTICK", "QUOTE"}
       THEN (CASE repl[i + 1] = "$" -> <<"$">>
               [] repl[i + 1] = "&" -> matched
               [] repl[i + 1] = "BACKTICK" -> before
               [] repl[i + 1] = "QUOTE" -> after)
            \o GetSubstitution(matched, before, after, repl, i + 2)
       ELSE <<repl[i]>> \o GetSubstitution(matched, before, after, repl, i + 1)

StringReplace_KeepsPattern(s, pat, repl) ==
  LET pos == IndexOf(s, pat)
  IN IF pos = 0 THEN s
     ELSE LET before == SubSeq(s, 1, pos - 1)
              after  == SubSeq(s, pos + Len(pat), Len(s))
          IN before \o GetSubstitution(pat, before, after, repl, 1) \o pat \o after

StringReplace_EatsNext(s, pat, repl) ==
  LET pos == IndexOf(s, pat)
  IN IF pos = 0 THEN s
     ELSE LET before == SubSeq(s, 1, pos - 1)
              after  == SubSeq(s, pos + Len(pat) + 1, Len(s))
          IN before \o GetSubstitution(pat, before, after, repl, 1) \o after

\* String.prototype.replace(searchString, replaceString): first occurrence only
StringReplace(s, pat, repl) ==
  LET pos == IndexOf(s, pat)
  IN IF pos = 0 THEN s
     ELSE LET before == SubSeq(s, 1, pos - 1)
              after  == SubSeq(s, pos + Len(pat), Len(s))
          IN before \o GetSubstitution(pat, before, after, repl, 1) \o after

\* content.match(/\{\{[^}]+\}\}/g): the matches, left to right
RECURSIVE RunEnd(_, _)
RunEnd(s, j) == IF j <= Len(s) /\ s[j] # "}" THEN RunEnd(s, j + 1) ELSE j

RECURSIVE MatchPlaceholders(_, _)
MatchPlaceholders(s, i) ==
  IF i + 4 > Len(s) THEN <<>>
  ELSE IF s[i] = "{" /\ s[i + 1] = "{"
       THEN LET j == RunEnd(s, i + 2)
            IN IF j > i + 2 /\ j + 1 <= Len(s) /\ s[j] = "}" /\ s[j + 1] = "}"
               THEN <<SubSeq(s, i, j + 1)>> \o MatchPlaceholders(s, j + 2)
               ELSE MatchPlaceholders(s, i + 1)
       ELSE MatchPlaceholders(s, i + 1)

(***************************************************************************)
(* What the validator's substring and regular-expression tests see in one  *)
(* symbol.  No needle of the validator holds one of the six characters, so *)
(* a needle lies inside one atom or is absent.                             *)
(***************************************************************************)
Needles_LooseRoot(sym) ==
  CASE sym \in {"DECL"}  -> {"<?xml version=\"1.0\""}
    [] sym \in {"ROOT", "ROOTX"} -> {"<unattend xmlns=\"urn:schemas-microsoft-com:unattend\">"}
    [] sym = "CLOSE" -> {"</unattend>"}
    [] sym = "SETUP" -> {"Microsoft-Windows-Setup", "processorArchitecture=\"amd64\""}
    [] sym = "SHELL" -> {"Microsoft-Windows-Shell-Setup", "processorArchitecture=\"x86\""}
    [] sym = "PW_OPEN" -> {"<Password>"}
    [] sym = "AUTOLOGON" -> {"<AutoLogon>"}
    [] OTHER -> {}

Needles(sym) ==
  CASE sym \in {"DECL"}  -> {"<?xml version=\"1.0\""}
    [] sym = "ROOT"  -> {"<unattend xmlns=\"urn:schemas-microsoft-com:unattend\">"}
    [] sym = "CLOSE" -> {"</unattend>"}
    [] sym = "SETUP" -> {"Microsoft-Windows-Setup", "processorArchitecture=\"amd64\""}
    [] sym = "SHELL" -> {"Microsoft-Windows-Shell-Setup", "processorArchitecture=\"x86\""}
    [] sym = "PW_OPEN" -> {"<Password>"}
    [] sym = "AUTOLOGON" -> {"<AutoLogon>"}
    [] OTHER -> {}

\* String.prototype.includes for a needle of the validator
Includes(content, needle) == \E i \in 1..Len(content) : needle \in Needles(content[i])

\* matches of /<[^\/!?][^>]*>/g inside one symbol
OpenTagsOf(sym) ==
  IF sym \in {"ROOT", "ROOTX", "A", "B", "SETUP", "SHELL", "PW_OPEN", "PW_OPEN_LC", "AUTOLOGON"}
  THEN 1 ELSE 0
\* matches of /<\/[^>]*>/g inside one symbol
CloseTagsOf(sym) == IF sym \in {"CLOSE", "PW_CLOSE", "PW_CLOSE_LC"} THEN 1 ELSE 0

RECURSIVE CountOpenTags(_)
CountOpenTags(s) == IF s = <<>> THEN 0 ELSE OpenTagsOf(Head(s)) + CountOpenTags(Tail(s))
RECURSIVE CountCloseTags(_)
CountCloseTags(s) == IF s = <<>> THEN 0 ELSE CloseTagsOf(Head(s)) + CountCloseTags(Tail(s))

\* the distinct matches of /processorArchitecture="([^"]+)"/g
Architectures(content) ==
  { n \in UNION { Needles(content[i]) : i \in 1..Len(content) } :
      n \in {"processorArchitecture=\"amd64\"", "processorArchitecture=\"x86\""} }

(***************************************************************************)
(* The password check of the validator.  The value of a <Password> element  *)
(* is an atom of the document; PasswordValues gives its characters, one     *)
(* string per character.  AsciiChars is the printable part of the ASCII     *)
(* table from code 32 on (DQUOTE, QUOTE, BACKSLASH and BACKTICK stand for   *)
(* the four characters a string of this module cannot hold).               *)
(***************************************************************************)
AsciiChars ==
  << " ", "!", "DQUOTE", "#", "$", "%", "&", "QUOTE", "(", ")", "*", "+", ",", "-", ".", "/",
     "0", "1", "2", "3", "4", "5", "6", "7", "8", "9", ":", ";", "<", "=", ">", "?",
     "@", "A", "B", "C", "D", "E", "F", "G", "H", "I", "J", "K", "L", "M", "N", "O",
     "P", "Q", "R", "S", "T", "U", "V", "W", "X", "Y", "Z", "[", "BACKSLASH", "]", "^", "_",
     "BACKTICK", "a", "b", "c", "d", "e", "f", "g", "h", "i", "j", "k", "l", "m", "n", "o",
     "p", "q", "r", "s", "t", "u", "v", "w", "x", "y", "z", "{", "|", "}", "~" >>
CharCode(ch) == 31 + CHOOSE k \in 1..Len(AsciiChars) : AsciiChars[k] = ch
CharCodes(str) == [i \in 1..Len(str) |-> CharCode(str[i])]

Base64Alphabet ==
  << "A", "B", "C", "D", "E", "F", "G", "H", "I", "J", "K", "L", "M", "N", "O", "P",
     "Q", "R", "S", "T", "U", "V", "W", "X", "Y", "Z", "a", "b", "c", "d", "e", "f",
     "g", "h", "i", "j", "k", "l", "m", "n", "o", "p", "q", "r", "s", "t", "u", "v",
     "w", "x", "y", "z", "0", "1", "2", "3", "4", "5", "6", "7", "8", "9", "+", "/" >>
Base64Chars == { Base64Alphabet[k] : k \in 1..Len(Base64Alphabet) } \cup {"-", "_"}
Sextet(ch) ==
  CASE ch = "-" -> 62
    [] ch = "_" -> 63
    [] OTHER -> (CHOOSE k \in 1..Len(Base64Alphabet) : Base64Alphabet[k] = ch) - 1

\* the 6-bit values Buffer.from(str, 'base64') reads: characters outside the
\* alphabet are skipped, the first '=' ends the input
RECURSIVE Sextets(_, _)
Sextets(str, i) ==
  IF i > Len(str) \/ str[i] = "=" THEN <<>>
  ELSE IF str[i] \in Base64Chars THEN <<Sextet(str[i])>> \o Sextets(str, i + 1)
  ELSE Sextets(str, i + 1)

RECURSIVE BytesOf(_)
BytesOf(sx) ==
  IF Len(sx) < 2 THEN <<>>
  ELSE LET b1 == sx[1] * 4 + (sx[2] \div 16)
       IN IF Len(sx) = 2 THEN <<b1>>
          ELSE LET b2 == (sx[2] % 16) * 16 + (sx[3] \div 4)
               IN IF Len(sx) = 3 THEN <<b1, b2>>
                  ELSE <<b1, b2, (sx[3] % 4) * 64 + sx[4]>> \o BytesOf(SubSeq(sx, 5, Len(sx)))

\* Buffer.from(str, 'base64')
Base64Decode(str) == BytesOf(Sextets(str, 1))

\* buf.toString('base64')
RECURSIVE Base64Encode(_)
Base64Encode(bytes) ==
  IF bytes = <<>> THEN <<>>
  ELSE LET c1 == Base64Alphabet[(bytes[1] \div 4) + 1]
       IN IF Len(bytes) = 1
          THEN <<c1, Base64Alphabet[(bytes[1] % 4) * 16 + 1], "=", "=">>
          ELSE LET c2 == Base64Alphabet[(bytes[1] % 4) * 16 + (bytes[2] \div 16) + 1]
               IN IF Len(bytes) = 2
                  THEN <<c1, c2, Base64Alphabet[(bytes[2] % 16) * 4 + 1], "=">>
                  ELSE <<c1, c2, Base64Alphabet[(bytes[2] % 16) * 4 + (bytes[3] \div 64) + 1],
                         Base64Alphabet[(bytes[3] % 64) + 1]>>
                       \o Base64Encode(SubSeq(bytes, 4, Len(bytes)))

\* isBase64(str): does str come back from decoding and encoding it
isBase64(str) == Base64Encode(Base64Decode(str)) = str

\* toLowerCase() of the characters of buf.toString(), as character codes;
\* a byte from 128 on belongs to a character outside ASCII (0 stands for it),
\* and no such character lower-cases to a run the weak passwords hold
LowerCodes(bytes) ==
  [i \in 1..Len(bytes) |-> IF bytes[i] >= 128 THEN 0
                           ELSE IF bytes[i] >= 65 /\ bytes[i] <= 90 THEN bytes[i] + 32
                           ELSE bytes[i]]

weakPasswords == { <<"p", "a", "s", "s", "w", "o", "r", "d">>, <<"1", "2", "3", "4", "5", "6">>, <<"a", "d", "m", "i", "n">>, <<"u", "s", "e", "r">> }

PasswordValues ==
  [ PW_CLOUDIT64 |-> <<"Y", "2", "x", "v", "d", "W", "R", "p", "d", "A", "=", "=">>,
    PW_ADMIN |-> <<"a", "d", "m", "i", "n">>,
    PW_USER |-> <<"u", "s", "e", "r">>,
    PW_123456 |-> <<"1", "2", "3", "4", "5", "6">>,
    PW_ADMIN64 |-> <<"Y", "W", "R", "t", "a", "W", "4", "=">>,
    PW_UPPER |-> <<"M", "y", "A", "d", "m", "i", "n", "1">>,
    PW_UPPER64 |-> <<"Q", "U", "R", "N", "S", "U", "4", "=">> ]

\* the characters of a symbol of a password element
TagText(sym) ==
  CASE sym = "PW_OPEN" -> <<"<", "P", "a", "s", "s", "w", "o", "r", "d", ">">>
    [] sym = "PW_OPEN_LC" -> <<"<", "p", "a", "s", "s", "w", "o", "r", "d", ">">>
    [] sym = "PW_CLOSE" -> <<"<", "/", "P", "a", "s", "s", "w", "o", "r", "d", ">">>
    [] sym = "PW_CLOSE_LC" -> <<"<", "/", "p", "a", "s", "s", "w", "o", "r", "d", ">">>
    [] OTHER -> PasswordValues[sym]

\* content.match(/<Password>([^<]+)<\/Password>/gi): an opening tag in any
\* case, a run of value atoms (the atoms without a '<'), a closing tag in any case
RECURSIVE ValueRunEnd(_, _)
ValueRunEnd(s, j) ==
  IF j <= Len(s) /\ s[j] \in DOMAIN PasswordValues THEN ValueRunEnd(s, j + 1) ELSE j

RECURSIVE MatchPasswords(_, _)
MatchPasswords(s, i) ==
  IF i + 2 > Len(s) THEN <<>>
  ELSE IF s[i] \in {"PW_OPEN", "PW_OPEN_LC"}
       THEN LET j == ValueRunEnd(s, i + 1)
            IN IF j > i + 1 /\ j <= Len(s) /\ s[j] \in {"PW_CLOSE", "PW_CLOSE_LC"}
               THEN <<SubSeq(s, i, j)>> \o MatchPasswords(s, j + 1)
               ELSE MatchPasswords(s, i + 1)
       ELSE MatchPasswords(s, i + 1)

\* password.replace(/<\/?Password>/g, ''): the tags are taken out in this
\* case only; the characters of what is left
RECURSIVE StripTags(_)
StripTags(match) ==
  IF match = <<>> THEN <<>>
  ELSE (IF Head(match) \in {"PW_OPEN", "PW_CLOSE"} THEN <<>> ELSE TagText(Head(match)))
       \o StripTags(Tail(match))

(***************************************************************************)
(* XmlValidator (src/utils/xmlValidator.ts).  A diagnostic is a record     *)
(* [msg, detail]: detail lists the matched tokens of the leftover-         *)
(* placeholder error and is empty for every other message.                 *)
(***************************************************************************)
Diag(msg) == [msg |-> msg, detail |-> <<>>]

OutputPath == "unattended/build/autounattend.xml"
TemplatePath == "unattended/templates/autounattend-template.xml"

\* [cond ? <<d>> : <<>>]
When(cond, d) == IF cond THEN <<d>> ELSE <<>>

validateBasicStructureErrors_StopsAtFirst(content) ==
  LET placeholders == MatchPlaceholders(content, 1)
  IN IF ~Includes(content, "<?xml version=\"1.0\"") THEN <<Diag("Missing XML declaration")>>
     ELSE IF ~Includes(content, "<unattend xmlns=\"urn:schemas-microsoft-com:unattend\">")
     THEN <<Diag("Missing or invalid unattend root element")>>
     ELSE IF ~Includes(content, "</unattend>") THEN <<Diag("Missing closing unattend tag")>>
     ELSE When(placeholders # <<>>,
               [msg |-> "Unreplaced placeholders found", detail |-> placeholders])

validateBasicStructureErrors(content) ==
  LET placeholders == MatchPlaceholders(content, 1)
  IN When(~Includes(content, "<?xml version=\"1.0\""), Diag("Missing XML declaration"))
     \o When(~Includes(content, "<unattend xmlns=\"urn:schemas-microsoft-com:unattend\">"),
             Diag("Missing or invalid unattend root element"))
     \o When(~Includes(content, "</unattend>"), Diag("Missing closing unattend tag"))
     \o When(placeholders # <<>>,
             [msg |-> "Unreplaced placeholders found", detail |-> placeholders])

validateBasicStructureWarnings(content) ==
  When(CountOpenTags(content) # CountCloseTags(content), Diag("Potential tag mismatch detected"))

validateWindowsComponents(content) ==
  When(~Includes(content, "Microsoft-Windows-Setup"),
       Diag("Recommended component missing: Microsoft-Windows-Setup"))
  \o When(~Includes(content, "Microsoft-Windows-Shell-Setup"),
          Diag("Recommended component missing: Microsoft-Windows-Shell-Setup"))
  \o When(Includes(content, "Microsoft-Windows-LUA-Settings"),
          Diag("Deprecated component found: Microsoft-Windows-LUA-Settings"))
  \o When(Includes(content, "Microsoft-Windows-OutOfBoxExperience"),
          Diag("Deprecated component found: Microsoft-Windows-OutOfBoxExperience"))
  \o When(Cardinality(Architectures(content)) > 1,
          Diag("Multiple processor architectures detected - ensure consistency"))

\* the warnings of the loop over the password matches
RECURSIVE PasswordWarnings(_)
PasswordWarnings(matches) ==
  IF matches = <<>> THEN <<>>
  ELSE LET passwordValue == StripTags(Head(matches))
           decodedPassword == IF isBase64(passwordValue)
                              THEN LowerCodes(Base64Decode(passwordValue))
                              ELSE LowerCodes(CharCodes(passwordValue))
       IN When(~isBase64(passwordValue),
               Diag("Plaintext password detected - consider using Base64 encoding"))
          \o When(\E weak \in weakPasswords : IndexOf(decodedPassword, CharCodes(weak)) > 0,
                  Diag("Weak password detected"))
          \o PasswordWarnings(Tail(matches))

validatePasswordSecurity(content) ==
  PasswordWarnings(MatchPasswords(content, 1))
  \o When(Includes(content, "<AutoLogon>") /\ ~Includes(content, "<Password>"),
       Diag("Auto-logon enabled without password"))

suggestOptimizations(content) ==
  When(~Includes(content, "Microsoft-Windows-WindowsUpdateServices"),
       Diag("Consider adding Windows Update configuration"))
  \o When(~Includes(content, "Microsoft-Windows-International"),
          Diag("Consider adding international/regional settings"))
  \o When(~Includes(content, "<DiskConfiguration>"),
          Diag("Consider adding explicit disk configuration"))
  \o When(~Includes(content, "DoNotSendAdditionalData"),
          Diag("Consider configuring Windows Error Reporting settings"))

IsValidAfterChecks_Warnings(errors, warnings, suggestions) ==
  ~(Len(errors) > 0 \/ Len(warnings) > 2)

\* result.isValid as validateAutounattendXml leaves it after all checks
IsValidAfterChecks(errors, warnings, suggestions) == ~(Len(errors) > 0)

\* validateAutounattendXml(xmlPath); file is the file at xmlPath, readThrows
\* says whether fs.readFileSync throws on it
validateAutounattendXml(file, readThrows) ==
  IF ~file.exists
  THEN [isValid |-> FALSE, errors |-> <<[msg |-> "XML file not found", detail |-> <<<<OutputPath>>>>]>>,
        warnings |-> <<>>, suggestions |-> <<>>]
  ELSE IF readThrows
  THEN [isValid |-> FALSE, errors |-> <<[msg |-> "Validation failed", detail |-> <<<<OutputPath>>>>]>>,
        warnings |-> <<>>, suggestions |-> <<>>]
  ELSE LET content == file.data
           errors == validateBasicStructureErrors(content)
           warnings == validateBasicStructureWarnings(content)
                       \o validateWindowsComponents(content)
                       \o validatePasswordSecurity(content)
           suggestions == suggestOptimizations(content)
       IN [isValid |-> IsValidAfterChecks(errors, warnings, suggestions),
           errors |-> errors, warnings |-> warnings, suggestions |-> suggestions]

\* generateValidationReport(result): the sections in their fixed order
generateValidationReport(r) ==
  <<[section |-> "Status", valid |-> r.isValid, lines |-> <<>>]>>
  \o When(Len(r.errors) > 0, [section |-> "ERRORS", valid |-> r.isValid, lines |-> r.errors])
  \o When(Len(r.warnings) > 0, [section |-> "WARNINGS", valid |-> r.isValid, lines |-> r.warnings])
  \o When(Len(r.suggestions) > 0,
          [section |-> "SUGGESTIONS", valid |-> r.isValid, lines |-> r.suggestions])

(***************************************************************************)
(* AutoUnattendBuilder (unattended/merge.ts).                              *)
(***************************************************************************)
\* Object.entries(passMapping): the pass names in declaration order
PassOrder == <<"windowspe", "offlineservicing", "generalize", "specialize",
               "auditsystem", "audituser", "oobesystem">>
Passes == { PassOrder[k] : k \in 1..Len(PassOrder) }

\* passMapping: the placeholder of each pass
PlaceholderName(pass) ==
  CASE pass = "windowspe" -> "WINDOWSPE_PASS"
    [] pass = "offlineservicing" -> "OFFLINESERVICING_PASS"
    [] pass = "generalize" -> "GENERALIZE_PASS"
    [] pass = "specialize" -> "SPECIALIZE_PASS"
    [] pass = "auditsystem" -> "AUDITSYSTEM_PASS"
    [] pass = "audituser" -> "AUDITUSER_PASS"
    [] pass = "oobesystem" -> "OOBESYSTEM_PASS"
Placeholder(pass) == <<"{", "{", PlaceholderName(pass), "}", "}">>

\* A file: whether it exists, whether fs.readFileSync succeeds on it, its text
File(data) == [exists |-> TRUE, readable |-> TRUE, data |-> data]
NoFile == [exists |-> FALSE, readable |-> FALSE, data |-> <<>>]
Unreadable(data) == [exists |-> TRUE, readable |-> FALSE, data |-> data]

Event(op, arg) == [op |-> op, arg |-> arg]

readPassFile_CountsMissing(file, pass) ==
  IF ~file.exists
  THEN [content |-> <<>>, counted |-> 1,
        events |-> <<Event("existsSync", pass), Event("warn: Pass file not found", pass)>>]
  ELSE IF ~file.readable
  THEN [content |-> <<>>, counted |-> 0,
        events |-> <<Event("existsSync", pass), Event("readFileSync throws", pass),
                     Event("error: Error reading pass file", pass)>>]
  ELSE [content |-> file.data, counted |-> 1,
        events |-> <<Event("existsSync", pass), Event("readFileSync", pass)>>]

readPassFile_CountsUnreadable(file, pass) ==
  IF ~file.exists
  THEN [content |-> <<>>, counted |-> 0,
        events |-> <<Event("existsSync", pass), Event("warn: Pass file not found", pass)>>]
  ELSE IF ~file.readable
  THEN [content |-> <<>>, counted |-> 1,
        events |-> <<Event("existsSync", pass), Event("readFileSync throws", pass),
                     Event("error: Error reading pass file", pass)>>]
  ELSE [content |-> file.data, counted |-> 1,
        events |-> <<Event("existsSync", pass), Event("readFileSync", pass)>>]

\* readPassFile(passName): the text returned, whether passesProcessed was
\* incremented, and what was done on the way
readPassFile(file, pass) ==
  IF ~file.exists
  THEN [content |-> <<>>, counted |-> 0,
        events |-> <<Event("existsSync", pass), Event("warn: Pass file not found", pass)>>]
  ELSE IF ~file.readable
  THEN [content |-> <<>>, counted |-> 0,
        events |-> <<Event("existsSync", pass), Event("readFileSync throws", pass),
                     Event("error: Error reading pass file", pass)>>]
  ELSE [content |-> file.data, counted |-> 1,
        events |-> <<Event("existsSync", pass), Event("readFileSync", pass)>>]

\* the loop of buildAutounattend from pass k on: the text after the
\* remaining substitutions, the fragments counted and the events
RECURSIVE SubstitutePasses_SkipsLast(_, _, _)
SubstitutePasses_SkipsLast(template, files, k) ==
  IF k > Len(PassOrder) - 1
  THEN [text |-> template, counted |-> IF files[PassOrder[Len(PassOrder)]].exists THEN 1 ELSE 0,
        events |-> <<>>]
  ELSE LET pass == PassOrder[k]
           rd == readPassFile(files[pass], pass)
           rest == SubstitutePasses_SkipsLast(
                     StringReplace(template, Placeholder(pass), rd.content), files, k + 1)
       IN [text |-> rest.text, counted |-> rd.counted + rest.counted,
           events |-> rd.events \o rest.events]

RECURSIVE SubstitutePasses_LastFirst(_, _, _)
SubstitutePasses_LastFirst(template, files, k) ==
  IF k > Len(PassOrder)
  THEN [text |-> template, counted |-> 0, events |-> <<>>]
  ELSE LET pass == PassOrder[Len(PassOrder) + 1 - k]
           rd == readPassFile(files[pass], pass)
           rest == SubstitutePasses_LastFirst(
                     StringReplace(template, Placeholder(pass), rd.content), files, k + 1)
       IN [text |-> rest.text, counted |-> rd.counted + rest.counted,
           events |-> rd.events \o rest.events]

RECURSIVE SubstitutePasses(_, _, _)
SubstitutePasses(template, files, k) ==
  IF k > Len(PassOrder)
  THEN [text |-> template, counted |-> 0, events |-> <<>>]
  ELSE LET pass == PassOrder[k]
           rd == readPassFile(files[pass], pass)
           rest == SubstitutePasses(StringReplace(template, Placeholder(pass), rd.content),
                                    files, k + 1)
       IN [text |-> rest.text, counted |-> rd.counted + rest.counted,
           events |-> rd.events \o rest.events]

readTemplate_EmptyWhenMissing(file) ==
  IF ~file.exists \/ ~file.readable
  THEN [threw |-> FALSE, content |-> <<>>,
        error |-> [msg |-> "", path |-> ""],
        events |-> <<Event("existsSync", "template"),
                     Event("error: Error reading template file", "template")>>]
  ELSE [threw |-> FALSE, content |-> file.data,
        error |-> [msg |-> "", path |-> ""],
        events |-> <<Event("existsSync", "template"), Event("readFileSync", "template")>>]

\* readTemplate(): the text, or the error it throws
readTemplate(file) ==
  IF ~file.exists
  THEN [threw |-> TRUE, content |-> <<>>,
        error |-> [msg |-> "Template file not found", path |-> TemplatePath],
        events |-> <<Event("existsSync", "template"),
                     Event("error: Error reading template file", "template")>>]
  ELSE IF ~file.readable
  THEN [threw |-> TRUE, content |-> <<>>,
        error |-> [msg |-> "readFileSync failed", path |-> TemplatePath],
        events |-> <<Event("existsSync", "template"), Event("readFileSync throws", "template"),
                     Event("error: Error reading template file", "template")>>]
  ELSE [threw |-> FALSE, content |-> file.data,
        error |-> [msg |-> "", path |-> ""],
        events |-> <<Event("existsSync", "template"), Event("readFileSync", "template")>>]

\* What fs.writeFileSync and fs.statSync can do to the output file:
\*   ok           both succeed
\*   open_throws  writeFileSync throws before touching the file
\*   write_throws writeFileSync throws after truncating the file
\*   stat_throws  the file is written, fs.statSync throws
WriteOutcomes == {"ok", "open_throws", "write_throws", "stat_throws"}

\* whether the try block around the write ends in the catch block, which
\* logs and throws the error again
WriteThrows_Swallowed(outcome) == FALSE
WriteThrows(outcome) == outcome # "ok"

\* the file at the output path after fs.writeFileSync(outputPath, text)
WriteFile_Appends(old, text, outcome) ==
  CASE outcome \in {"ok", "stat_throws"} -> File(old.data \o text)
    [] outcome = "open_throws" -> old
    [] outcome = "write_throws" -> File(<<>>)

WriteFile(old, text, outcome) ==
  CASE outcome \in {"ok", "stat_throws"} -> File(text)
    [] outcome = "open_throws" -> old
    [] outcome = "write_throws" -> File(<<>>)

\* what is left of the bytes of old from byte n on; an atom cut in two leaves
\* its last bytes, each the symbol "BYTE"
RECURSIVE DropBytes(_, _)
DropBytes(old, n) ==
  IF n <= 0 \/ old = <<>> THEN old
  ELSE IF ByteLen(Head(old)) <= n THEN DropBytes(Tail(old), n - ByteLen(Head(old)))
  ELSE [i \in 1..(ByteLen(Head(old)) - n) |-> "BYTE"] \o Tail(old)

\* fs.writeFileSync seen from another process, in its two steps: the file is
\* opened with truncation, then the text is written from offset 0 on
OpenTruncate(old) == File(<<>>)
WriteAtStart(old, text) == File(text \o DropBytes(old.data, ByteLength(text)))

\* buildAutounattend(): the whole assembly
buildAutounattend(tplFile, files, out, stats, outcome) ==
  LET tpl == readTemplate(tplFile)
  IN IF tpl.threw
     THEN [threw |-> TRUE, error |-> tpl.error, output |-> out, stats |-> stats,
           events |-> tpl.events]
     ELSE LET sub == SubstitutePasses(tpl.content, files, 1)
              counted == [stats EXCEPT !.passesProcessed = @ + sub.counted]
              written == WriteFile(out, sub.text, outcome)
          IN IF ~WriteThrows(outcome)
             THEN [threw |-> FALSE, error |-> [msg |-> "", path |-> ""], output |-> written,
                   stats |-> [counted EXCEPT !.fileSize = ByteLength(written.data)],
                   events |-> tpl.events \o sub.events
                              \o <<Event("writeFileSync", "output"), Event("statSync", "output")>>]
             ELSE [threw |-> TRUE,
                   error |-> [msg |-> IF outcome = "stat_throws" THEN "statSync failed"
                                      ELSE "writeFileSync failed",
                              path |-> OutputPath],
                   output |-> written, stats |-> counted,
                   events |-> tpl.events \o sub.events
                              \o <<Event(IF outcome = "stat_throws" THEN "statSync throws"
                                         ELSE "writeFileSync throws", "output"),
                                   Event("error: Error writing output file", "output")>>]

\* the fallback of validateXml(): the three substring checks
BasicIsValid(content) ==
  /\ Includes(content, "<?xml version=\"1.0\"")
  /\ Includes(content, "<unattend xmlns=\"urn:schemas-microsoft-com:unattend\">")
  /\ Includes(content, "</unattend>")

NoValidation == [isValid |-> FALSE, errors |-> <<>>, warnings |-> <<>>, suggestions |-> <<>>]

\* validateXml(): isValid, and report and warnings when the enhanced
\* validator is loaded (defined lists the fields the returned object has)
validateXml(enhanced, out, readThrows) ==
  IF enhanced
  THEN LET r == validateAutounattendXml(out, readThrows)
       IN [isValid |-> r.isValid, report |-> generateValidationReport(r),
           warnings |-> r.warnings, defined |-> {"isValid", "report", "warnings"},
           result |-> r, events |-> <<Event("validateAutounattendXml", "output")>>]
  ELSE [isValid |-> IF readThrows \/ ~out.exists THEN FALSE ELSE BasicIsValid(out.data),
        report |-> <<>>, warnings |-> <<>>, defined |-> {"isValid"},
        result |-> NoValidation, events |-> <<Event("basic validation", "output")>>]

\* this.buildStats.startTime = new Date(), the clock reading t
StartClock_KeepsStart(stats, t) == stats
StartClock(stats, t) == [stats EXCEPT !.startTime = t]

\* this.buildStats.endTime = new Date(), the clock reading t, and the duration
StopClock(stats, t) == [stats EXCEPT !.endTime = t, !.duration = t - stats.startTime]

\* build(): the object returned, the output file and buildStats afterwards;
\* start and end are the readings of the clock at the beginning of the call
\* and after validation (or in the catch block)
build(enhanced, tplFile, files, out, stats, outcome, readThrows, start, end) ==
  LET asm == buildAutounattend(tplFile, files, out, StartClock(stats, start), outcome)
  IN IF asm.threw
     THEN [success |-> FALSE,
           defined |-> {"success", "error", "buildStats"},
           outputPath |-> "", isValid |-> FALSE, error |-> asm.error,
           warnings |-> <<>>, validationReport |-> <<>>,
           buildStats |-> StopClock(asm.stats, end),
           output |-> asm.output, validation |-> NoValidation,
           events |-> asm.events \o <<Event("error: Build failed", "build")>>]
     ELSE LET v == validateXml(enhanced, asm.output, readThrows)
          IN [success |-> TRUE,
              defined |-> {"success", "outputPath", "buildStats"}
                          \cup { IF f = "report" THEN "validationReport" ELSE f : f \in v.defined },
              outputPath |-> OutputPath, isValid |-> v.isValid,
              error |-> [msg |-> "", path |-> ""],
              warnings |-> v.warnings, validationReport |-> v.report,
              buildStats |-> StopClock(asm.stats, end),
              output |-> asm.output, validation |-> v.result,
              events |-> asm.events \o v.events \o <<Event("info: Build Summary", "build")>>]

\* the constructor's initial buildStats, the clock reading t
StatsAt(t) == [startTime |-> t, endTime |-> t, duration |-> 0, passesProcessed |-> 0, fileSize |-> 0]
\* the first builder is made at time 0
NewStats == StatsAt(0)

(***************************************************************************)
(* The PowerShell scripts.  A script leaves behind how it ended ("ended":  *)
(* it ran to its last statement, "exit1": exit 1, "threw": a terminating   *)
(* error left it), $LASTEXITCODE, the directory iso\extracted, whether the *)
(* image is attached, what it wrote to the pipeline and the calls it made. *)
(***************************************************************************)
\* a directory: the items at its top level and the autounattend.xml in it
Dir(items, answer) == [exists |-> TRUE, items |-> items, answer |-> answer]
NoDir == [exists |-> FALSE, items |-> {}, answer |-> NoFile]
EmptyDir == Dir({}, NoFile)

\* $requiredItems of Test-ExtractedIso
requiredItems == {"sources", "boot", "bootmgr"}
\* what the source image holds at its top level
ImageItems == requiredItems

\* Remove-Item "$dir\*" -Recurse -Force -ErrorAction SilentlyContinue;
\* removes: whether the items could be removed (a failure stays silent)
RemoveContents(dir, removes) == IF removes THEN EmptyDir ELSE dir

\* robocopy source dest /E: items that are in dest already are skipped, items
\* of dest that the source lacks are left alone; the exit code is the sum of
\* 1 (items copied), 2 (dest holds extra items) and 8 (items failed), or 16
robocopy(image, dest, fails) ==
  LET toCopy == image \ dest.items
      extra == dest.items \ image # {} \/ dest.answer.exists
      copied == CASE fails = "none" -> toCopy
                  [] fails = "some" -> toCopy \ {"bootmgr"}
                  [] OTHER -> {}
      code == IF fails = "fatal" THEN 16
              ELSE (IF copied # {} THEN 1 ELSE 0) + (IF extra THEN 2 ELSE 0)
                   + (IF toCopy \ copied # {} THEN 8 ELSE 0)
  IN [code |-> code, dir |-> [dest EXCEPT !.items = @ \cup copied]]

\* Mount-IsoFile: the mount path, or $null without a drive letter or on an error
MountIsoFile(env, attached) ==
  [path |-> env.mount = "ok",
   mounted |-> attached \/ env.mount \in {"ok", "no_letter"},
   events |-> <<Event("Mount-IsoFile", IF env.mount = "ok" THEN "path" ELSE "null")>>]

\* Copy-IsoContents: what it returned, or that an error left it (threw); code
\* is robocopy's exit code, -1 when robocopy did not run
CopyIsoContents(dest, last, env) ==
  IF ~dest.exists /\ env.create = "throws"
  THEN [threw |-> TRUE, returned |-> FALSE, code |-> -1, lastExitCode |-> last, dir |-> dest,
        events |-> <<Event("Copy-IsoContents", "threw")>>]
  ELSE LET cleaned == IF dest.exists THEN RemoveContents(dest, env.removes) ELSE EmptyDir
       IN IF env.count = "throws"
          THEN [threw |-> FALSE, returned |-> FALSE, code |-> -1, lastExitCode |-> last,
                dir |-> cleaned,
                events |-> <<Event("Copy-IsoContents", "false"),
                             Event("ERROR", "Error copying ISO contents")>>]
          ELSE LET r == robocopy(ImageItems, cleaned, env.fails)
               IN [threw |-> FALSE, returned |-> TRUE, code |-> r.code,
                   lastExitCode |-> r.code, dir |-> r.dir,
                   events |-> <<Event("robocopy", IF r.code >= 8 THEN "failed copies" ELSE "no failed copies"),
                                Event("Copy-IsoContents", "true"),
                                IF r.code <= 1
                                THEN Event("SUCCESS", "ISO contents copied successfully")
                                ELSE Event("WARNING", "Robocopy completed with exit code")>>]

\* Dismount-IsoFile: it catches the error of Dismount-DiskImage; writesImage:
\* whether Dismount-DiskImage writes the image object to the pipeline
DismountIsoFile(env, attached) ==
  [mounted |-> IF env.dismount = "ok" THEN FALSE ELSE attached,
   outputs |-> IF env.dismount = "ok" /\ env.writesImage THEN <<"DiskImage">> ELSE <<>>,
   events |-> <<Event("Dismount-IsoFile", env.dismount)>>]

\* whether the finally block runs when the try block is left by running to
\* its end ("end"), by exit ("exit") or by an error ("throw")
RunsFinally_NotOnExit(leaving) == leaving # "exit"
RunsFinally(leaving) == TRUE

\* a script that did exit 1
Exit1(events, dir, attached, outputs) ==
  [ending |-> "exit1", lastExitCode |-> 1, extracted |-> dir, mounted |-> attached,
   outputs |-> outputs, events |-> events \o <<Event("exit", "1")>>]

\* Main of extract-iso.ps1; isoPath: whether -IsoPath was given
extractIso(isoPath, dest, last, attached, env) ==
  LET begun == <<Event("Test-Prerequisites", IF env.admin THEN "true" ELSE "false")>>
      found == begun \o (IF isoPath THEN <<>>
                         ELSE <<Event("Find-IsoFile", IF env.found THEN "path" ELSE "null")>>)
  IN IF ~env.admin THEN Exit1(begun, dest, attached, <<>>)
     ELSE IF ~isoPath /\ ~env.found THEN Exit1(found, dest, attached, <<>>)
     ELSE IF ~env.isoExists
          THEN Exit1(found \o <<Event("ERROR", "ISO file not found")>>, dest, attached, <<>>)
     ELSE LET m == MountIsoFile(env, attached)
          IN IF ~m.path THEN Exit1(found \o m.events, dest, m.mounted, <<>>)
             ELSE LET c == CopyIsoContents(dest, last, env)
                      leaving == IF c.threw THEN "throw" ELSE IF c.returned THEN "end" ELSE "exit"
                      d == IF RunsFinally(leaving) THEN DismountIsoFile(env, m.mounted)
                           ELSE [mounted |-> m.mounted, outputs |-> <<>>, events |-> <<>>]
                      tried == found \o m.events \o c.events
                               \o (IF c.threw THEN <<>>
                                   ELSE IF c.returned
                                   THEN <<Event("SUCCESS", "ISO extraction completed successfully!")>>
                                   ELSE <<Event("ERROR", "ISO extraction failed")>>)
                  IN IF leaving = "exit"
                     THEN Exit1(tried \o d.events, c.dir, d.mounted, d.outputs)
                     ELSE [ending |-> IF c.threw THEN "threw" ELSE "ended",
                           lastExitCode |-> c.lastExitCode, extracted |-> c.dir,
                           mounted |-> d.mounted, outputs |-> d.outputs,
                           events |-> tried \o d.events]

\* the three patterns of Validate-AutounattendXml, matched without regard to
\* case: xml and later on the line >, <unattend and later on the line >, and
\* </unattend>; of the atoms only the declarations and the root tags hold xml
LooseXml(content) ==
  /\ \E i \in 1..Len(content) : content[i] \in {"DECL", "DECL11", "ROOT", "ROOTX"}
  /\ \E i \in 1..Len(content) : content[i] \in {"ROOT", "ROOTX"}
  /\ \E i \in 1..Len(content) : content[i] = "CLOSE"

\* Validate-AutounattendXml of inject-autounattend.ps1
ValidateAutounattendXml(file) == file.exists /\ file.readable /\ LooseXml(file.data)

\* Test-ExtractedIso
TestExtractedIso(dir) == dir.exists /\ requiredItems \subseteq dir.items

\* Main of inject-autounattend.ps1; answer is the file at -AutounattendPath
injectAutounattend(dest, answer, last, attached, env) ==
  LET begun == <<Event("Test-Prerequisites", IF env.admin THEN "true" ELSE "false")>>
      tested == begun \o <<Event("Test-ExtractedIso",
                                 IF TestExtractedIso(dest) THEN "true" ELSE "false")>>
      validated == tested \o <<Event("Validate-AutounattendXml",
                                     IF ValidateAutounattendXml(answer) THEN "true" ELSE "false")>>
  IN IF ~env.admin THEN Exit1(begun, dest, attached, <<>>)
     ELSE IF ~TestExtractedIso(dest) THEN Exit1(tested, dest, attached, <<>>)
     ELSE IF ~ValidateAutounattendXml(answer) THEN Exit1(validated, dest, attached, <<>>)
     ELSE IF env.copy = "throws"
          THEN Exit1(validated \o <<Event("Copy-AutounattendFile", "false")>>,
                     [dest EXCEPT !.answer = NoFile], attached, <<>>)
     ELSE [ending |-> "ended", lastExitCode |-> last,
           extracted |-> [dest EXCEPT !.answer = File(answer.data)],
           mounted |-> attached,
           outputs |-> <<IF env.permissions THEN "True" ELSE "False">>,
           events |-> validated \o <<Event("Copy-AutounattendFile", "true"),
                                     Event("Copy-PostInstallScripts", "called"),
                                     Event("Set-IsoPermissions", "called"),
                                     Event("SUCCESS", "autounattend.xml injection completed successfully!")>>]

\* Main of build-iso.ps1; oscdimg runs under Start-Process, which leaves
\* $LASTEXITCODE alone
buildIso(dest, last, attached, env) ==
  LET begun == <<Event("Test-Prerequisites",
                       IF env.admin /\ env.oscdimg # "missing" THEN "true" ELSE "false")>>
      tested == begun \o <<Event("Test-ExtractedIso",
                                 IF TestExtractedIso(dest) THEN "true" ELSE "false")>>
  IN IF ~env.admin \/ env.oscdimg = "missing" THEN Exit1(begun, dest, attached, <<>>)
     ELSE IF ~TestExtractedIso(dest) THEN Exit1(tested, dest, attached, <<>>)
     ELSE IF env.oscdimg # "ok"
          THEN Exit1(tested \o <<Event("Build-IsoFile", "false")>>, dest, attached, <<>>)
     ELSE [ending |-> "ended", lastExitCode |-> last, extracted |-> dest, mounted |-> attached,
           outputs |-> <<>>,
           events |-> tested \o <<Event("Build-IsoFile", "true"),
                                  Event("SUCCESS", "ISO build completed successfully!")>>]

\* what if (-not (f)) sees of the values a function wrote to the pipeline:
\* nothing and a lone $false are false, two values or more are an array
Truthy(outputs) == Len(outputs) > 1 \/ (Len(outputs) = 1 /\ outputs[1] # "False")

\* Invoke-IsoExtraction, Invoke-AutounattendInjection, Invoke-IsoBuild: what
\* the function writes after the script r was called with &
InvokeScript(r) ==
  r.outputs \o <<IF r.ending # "threw" /\ r.lastExitCode = 0 THEN "True" ELSE "False">>

\* process.exit(result.success ? 0 : 1)
MergeExitCode(result) == IF result.success THEN 0 ELSE 1

\* no run of run.ps1 is under way
NoRun == [pc |-> "idle", SkipExtraction |-> FALSE, SkipBuild |-> FALSE, CleanOnly |-> FALSE,
          IsoPath |-> FALSE, exit |-> -1, steps |-> <<>>, before |-> NoDir, iso |-> FALSE]

\* no merge.js process was started
NoRace == <<>>
\* no monitored method was called: performanceMonitor.metrics = []
NoMon == [metrics |-> <<>>, now |-> 1, pending |-> {}, calls |-> <<>>]
\* no ConfigManager was constructed
NoCfg == <<>>
UtilsIdle == mon = NoMon /\ cfg = NoCfg

ScriptsIdle ==
  /\ run = NoRun
  /\ extracted = NoDir
  /\ lastExitCode = 0
  /\ mounted = FALSE
  /\ ext = <<>>
  /\ race = NoRace
  /\ UtilsIdle

(***************************************************************************)
(* Inputs.                                                                 *)
(***************************************************************************)
RECURSIVE Flatten(_)
Flatten(ss) == IF ss = <<>> THEN <<>> ELSE Head(ss) \o Flatten(Tail(ss))

AllPlaceholders == Flatten([k \in 1..Len(PassOrder) |-> Placeholder(PassOrder[k])])
AllReversed ==
  Flatten([k \in 1..Len(PassOrder) |-> Placeholder(PassOrder[Len(PassOrder) + 1 - k])])
Unrecognized == <<"{", "{", "FOO", "}", "}">>

\* what stands between the root element's tags in a template
Bodies ==
  { AllPlaceholders,
    AllReversed,
    Placeholder("windowspe") \o Placeholder("oobesystem"),
    Placeholder("windowspe") \o Placeholder("windowspe") \o Placeholder("oobesystem"),
    AllPlaceholders \o Unrecognized,
    Unrecognized,
    <<"{", "{", "FOO">> \o Placeholder("windowspe") \o <<"}", "}">>,
    <<"{">> \o Placeholder("windowspe") \o <<"{", "OOBESYSTEM_PASS", "}", "}">>,
    <<"SETUP", "SHELL">> \o AllPlaceholders }

\* what stands around the body
Frames ==
  { [head |-> <<"DECL", "ROOT">>,   tail |-> <<"CLOSE">>],
    [head |-> <<"ROOT">>,           tail |-> <<"CLOSE">>],
    [head |-> <<"DECL11", "ROOT">>, tail |-> <<"CLOSE">>],
    [head |-> <<"DECL", "ROOTX">>,  tail |-> <<"CLOSE">>],
    [head |-> <<"DECL">>,           tail |-> <<"CLOSE">>],
    [head |-> <<"DECL", "ROOT">>,   tail |-> <<>>] }

WellFormedFrame == [head |-> <<"DECL", "ROOT">>, tail |-> <<"CLOSE">>]

\* every body in the well-formed frame, and every frame around all placeholders
TemplateTexts ==
  { WellFormedFrame.head \o b \o WellFormedFrame.tail : b \in Bodies }
  \cup { f.head \o AllPlaceholders \o f.tail : f \in Frames }
TemplateFiles == { File(t) : t \in TemplateTexts } \cup {NoFile, Unreadable(<<"DECL">>)}

Plain == <<"A">>

\* the fragment texts that are not the plain one
SpecialTexts ==
  { <<>>, Unrecognized, <<"$", "&">>, <<"$", "$">>, <<"$", "BACKTICK">>, <<"$", "QUOTE">>,
    <<"A", "$">>, Placeholder("oobesystem"), Placeholder("windowspe"), <<"{", "{">> }
SpecialFiles == { File(t) : t \in SpecialTexts } \cup {NoFile, Unreadable(Plain)}

\* every pass has the plain fragment, but for at most n passes
RECURSIVE StoresWith(_)
StoresWith(n) ==
  IF n = 0 THEN { [p \in Passes |-> File(Plain)] }
  ELSE LET fewer == StoresWith(n - 1)
       IN fewer \cup { [fs EXCEPT ![p] = f] : fs \in fewer, p \in Passes, f \in SpecialFiles }
\* only windowspe.xml = <A/> and oobesystem.xml = <B/> are there
TwoFragments ==
  [p \in Passes |-> CASE p = "windowspe" -> File(<<"A">>)
                      [] p = "oobesystem" -> File(<<"B">>)
                      [] OTHER -> NoFile]
FragmentStores == StoresWith(MaxSpecial) \cup {TwoFragments}

\* the input files the build driver is followed over several calls with
DriverTemplates ==
  { File(<<"DECL", "ROOT">> \o AllPlaceholders \o <<"CLOSE">>),
    File(<<"DECL", "ROOT">> \o Placeholder("windowspe") \o Unrecognized \o <<"CLOSE">>),
    NoFile }
DriverStores ==
  { [p \in Passes |-> File(Plain)],
    [p \in Passes |-> IF p \in {"windowspe", "oobesystem"} THEN File(Plain) ELSE NoFile] }
EditedPasses == {"oobesystem"}
EditedFiles == {NoFile, File(<<"B">>)}

OldOutputs == {NoFile, File(<<"OLD">>)}

(***************************************************************************)
(* The build driver over several calls.                                    *)
(***************************************************************************)
Init ==
  /\ templateFile \in DriverTemplates
  /\ passFiles \in DriverStores
  /\ outputFile \in OldOutputs
  /\ validator \in BOOLEAN
  /\ buildStats = NewStats
  /\ calls = 0
  /\ results = <<>>
  /\ edits = 0
  /\ vdoc = NoFile
  /\ vres = <<>>
  /\ ScriptsIdle

\* builder.build(), the file system answering the write with one of outcomes;
\* the clock never goes back: the call begins wait after the last reading
\* this process made of it and takes elapsed, both drawn from ticks
BuildWith(outcomes, readOutcomes, ticks) ==
  /\ Len(results) < MaxBuilds
  /\ \E outcome \in outcomes, readThrows \in readOutcomes, wait \in ticks, elapsed \in ticks :
       /\ readThrows => outcome = "ok" /\ templateFile.exists /\ templateFile.readable
       /\ ~(templateFile.exists /\ templateFile.readable) => outcome = "ok"
       /\ \E r \in {build(validator, templateFile, passFiles, outputFile, buildStats,
                         outcome, readThrows, buildStats.endTime + wait,
                         buildStats.endTime + wait + elapsed)} :
             /\ outputFile' = r.output
             /\ buildStats' = r.buildStats
             /\ calls' = calls + 1
             /\ results' = Append(results,
                                  [ret |-> r, call |-> calls + 1, enhanced |-> validator,
                                   template |-> templateFile, passes |-> passFiles,
                                   outBefore |-> outputFile, statsBefore |-> buildStats,
                                   outcome |-> outcome, readThrows |-> readThrows,
                                   start |-> buildStats.endTime + wait,
                                   end |-> buildStats.endTime + wait + elapsed])
  /\ UNCHANGED <<templateFile, passFiles, validator, edits, vdoc, vres, scriptVars>>

Build == BuildWith(WriteOutcomes, {FALSE}, {1})

\* new AutoUnattendBuilder(), right after the last reading of the clock
NewBuilder ==
  /\ calls > 0
  /\ buildStats' = StatsAt(buildStats.endTime)
  /\ calls' = 0
  /\ UNCHANGED <<templateFile, passFiles, outputFile, validator, results, edits, vdoc, vres, scriptVars>>

\* somebody writes or removes a fragment file
EditPass ==
  /\ edits < MaxEdits
  /\ \E p \in EditedPasses, f \in EditedFiles :
       /\ passFiles[p] # f
       /\ passFiles' = [passFiles EXCEPT ![p] = f]
  /\ edits' = edits + 1
  /\ UNCHANGED <<templateFile, outputFile, validator, buildStats, calls, results, vdoc, vres, scriptVars>>

\* somebody removes the template (as the test does by renaming it away)
RemoveTemplate ==
  /\ edits < MaxEdits
  /\ templateFile.exists
  /\ templateFile' = NoFile
  /\ edits' = edits + 1
  /\ UNCHANGED <<passFiles, outputFile, validator, buildStats, calls, results, vdoc, vres, scriptVars>>

Next == Build \/ NewBuilder \/ EditPass \/ RemoveTemplate

Spec == Init /\ [][Next]_vars

(***************************************************************************)
(* One build() call on a new builder, over the wide range of inputs.       *)
(***************************************************************************)
InitAsm ==
  /\ templateFile \in TemplateFiles
  /\ passFiles \in FragmentStores
  /\ outputFile = NoFile
  /\ validator \in BOOLEAN
  /\ buildStats = NewStats
  /\ calls = 0
  /\ results = <<>>
  /\ edits = 0
  /\ vdoc = NoFile
  /\ vres = <<>>
  /\ ScriptsIdle

BuildOnce == calls = 0 /\ BuildWith({"ok"}, BOOLEAN, {1})

SpecAsm == InitAsm /\ [][BuildOnce]_vars

(***************************************************************************)
(* validateAutounattendXml called directly on a document.                  *)
(***************************************************************************)
DocSymbols == {"DECL", "ROOT", "ROOTX", "CLOSE", "{", "}", "FOO"}

RECURSIVE SeqsUpTo(_, _)
SeqsUpTo(S, n) ==
  IF n = 0 THEN {<<>>}
  ELSE LET shorter == SeqsUpTo(S, n - 1)
       IN shorter \cup { Append(s, x) : s \in shorter, x \in S }

InitVal ==
  /\ vdoc \in { File(d) : d \in SeqsUpTo(DocSymbols, MaxDocLen) } \cup {NoFile}
  /\ vres = <<>>
  /\ templateFile = NoFile
  /\ passFiles = [p \in Passes |-> NoFile]
  /\ outputFile = NoFile
  /\ validator = TRUE
  /\ buildStats = NewStats
  /\ calls = 0
  /\ results = <<>>
  /\ edits = 0
  /\ ScriptsIdle

\* validator.validateAutounattendXml(path)
Validate ==
  /\ vres = <<>>
  /\ \E readThrows \in BOOLEAN :
       vres' = <<[readThrows |-> readThrows, result |-> validateAutounattendXml(vdoc, readThrows)]>>
  /\ UNCHANGED <<templateFile, passFiles, outputFile, validator, buildStats,
                 calls, results, edits, vdoc, scriptVars>>

SpecVal == InitVal /\ [][Validate]_vars

(***************************************************************************)
(* validateAutounattendXml called on documents with password elements.     *)
(***************************************************************************)
\* the tags of a password element as the pattern's i flag lets them be written
PasswordTags ==
  { <<"PW_OPEN", "PW_CLOSE">>, <<"PW_OPEN_LC", "PW_CLOSE_LC">>, <<"PW_OPEN_LC", "PW_CLOSE">> }
PasswordElements ==
  { <<t[1], v, t[2]>> : t \in PasswordTags, v \in DOMAIN PasswordValues } \cup { <<"AUTOLOGON">> }
PasswordDocs ==
  { <<"DECL", "ROOT">> \o Flatten(es) \o <<"CLOSE">> : es \in SeqsUpTo(PasswordElements, MaxPasswords) }

InitPw ==
  /\ vdoc \in { File(d) : d \in PasswordDocs }
  /\ vres = <<>>
  /\ templateFile = NoFile
  /\ passFiles = [p \in Passes |-> NoFile]
  /\ outputFile = NoFile
  /\ validator = TRUE
  /\ buildStats = NewStats
  /\ calls = 0
  /\ results = <<>>
  /\ edits = 0
  /\ ScriptsIdle

SpecPw == InitPw /\ [][Validate]_vars

(***************************************************************************)
(* The build driver with the clock followed: how long the process waits    *)
(* before a call and how long the call takes both vary.                    *)
(***************************************************************************)
InitTime ==
  /\ templateFile \in { File(<<"DECL", "ROOT">> \o AllPlaceholders \o <<"CLOSE">>), NoFile }
  /\ passFiles = TwoFragments
  /\ outputFile = NoFile
  /\ validator \in BOOLEAN
  /\ buildStats = NewStats
  /\ calls = 0
  /\ results = <<>>
  /\ edits = 0
  /\ vdoc = NoFile
  /\ vres = <<>>
  /\ ScriptsIdle

BuildTimed == BuildWith({"ok", "open_throws"}, {FALSE}, 0..MaxTicks)

NextTime == BuildTimed \/ NewBuilder

SpecTime == InitTime /\ [][NextTime]_vars

(***************************************************************************)
(* extract-iso.ps1 run on its own.                                         *)
(***************************************************************************)
ExtractEnvs ==
  [admin : BOOLEAN, found : BOOLEAN, isoExists : BOOLEAN,
   mount : {"ok", "no_letter", "throws"}, create : {"ok", "throws"}, removes : BOOLEAN,
   count : {"ok", "throws"}, fails : {"none", "some", "fatal"},
   dismount : {"ok", "throws"}, writesImage : BOOLEAN]

\* iso\extracted before the run: missing, empty, left by an earlier extraction,
\* left by an earlier whole run
ExtractDirs ==
  { NoDir, EmptyDir, Dir(ImageItems, NoFile), Dir(ImageItems \cup {"custom"}, File(<<"OLD">>)) }

\* this process takes no part in the script runs
BuilderIdle ==
  /\ templateFile = NoFile
  /\ passFiles = [p \in Passes |-> NoFile]
  /\ outputFile = NoFile
  /\ validator = TRUE
  /\ buildStats = NewStats
  /\ calls = 0
  /\ results = <<>>
  /\ edits = 0
  /\ vdoc = NoFile
  /\ vres = <<>>

InitExtract ==
  /\ BuilderIdle
  /\ run = NoRun
  /\ extracted \in ExtractDirs
  /\ lastExitCode = 0
  /\ mounted = FALSE
  /\ ext = <<>>
  /\ race = NoRace
  /\ UtilsIdle

\* .\scripts\extract-iso.ps1 [-IsoPath ...]
ExtractIso ==
  /\ ext = <<>>
  /\ \E isoPath \in BOOLEAN, env \in ExtractEnvs :
       \E r \in {extractIso(isoPath, extracted, lastExitCode, mounted, env)} :
         /\ extracted' = r.extracted
         /\ lastExitCode' = r.lastExitCode
         /\ mounted' = r.mounted
         /\ ext' = <<[isoPath |-> isoPath, env |-> env, before |-> extracted, ret |-> r]>>
  /\ UNCHANGED <<templateFile, passFiles, outputFile, validator, buildStats,
                 calls, results, edits, vdoc, vres, run, race, mon, cfg>>

SpecExtract == InitExtract /\ [][ExtractIso]_vars

(***************************************************************************)
(* run.ps1: one run, step by step.                                         *)
(***************************************************************************)
RunTemplates ==
  { File(<<"DECL", "ROOT">> \o AllPlaceholders \o <<"CLOSE">>),
    File(<<"DECL", "ROOT">> \o Placeholder("windowspe") \o Unrecognized \o <<"CLOSE">>),
    NoFile }
RunDirs == { EmptyDir, Dir(ImageItems \cup {"custom"}, File(<<"OLD">>)) }

\* the scripts run in the session of run.ps1, which passed its own check for
\* the administrator role and created iso\extracted
RunExtractEnvs ==
  { e \in ExtractEnvs : e.admin /\ e.isoExists /\ e.create = "ok" /\ e.count = "ok"
                        /\ (e.mount = "ok" \/ (e.dismount = "ok" /\ e.fails = "none" /\ e.removes))
                        /\ (e.mount = "throws" => e.found /\ e.writesImage) }
InjectEnvs == [admin : {TRUE}, copy : {"ok", "throws"}, permissions : BOOLEAN]
BuildIsoEnvs == [admin : {TRUE}, oscdimg : {"ok", "missing", "fails"}]

InitRun ==
  /\ templateFile \in RunTemplates
  /\ passFiles = [p \in Passes |-> File(Plain)]
  /\ outputFile \in OldOutputs
  /\ validator \in BOOLEAN
  /\ buildStats = NewStats
  /\ calls = 0
  /\ results = <<>>
  /\ edits = 0
  /\ vdoc = NoFile
  /\ vres = <<>>
  /\ extracted \in RunDirs
  /\ \E skipE, skipB, clean, iso \in BOOLEAN :
       run = [NoRun EXCEPT !.pc = "start", !.SkipExtraction = skipE, !.SkipBuild = skipB,
                           !.CleanOnly = clean, !.IsoPath = iso, !.before = extracted]
  /\ lastExitCode = 0
  /\ mounted = FALSE
  /\ ext = <<>>
  /\ race = NoRace
  /\ UtilsIdle

builderKept ==
  <<templateFile, passFiles, validator, buildStats, calls, results, edits, vdoc, vres, race,
    mon, cfg>>

\* the step taken, whether Main went on after it, and what the step saw
Step(name, ok, detail) == [step |-> name, ok |-> ok, detail |-> detail]
\* Main goes on to the next step, or does exit 1
Advance(name, ok, detail, next) ==
  run' = [run EXCEPT !.steps = Append(@, Step(name, ok, detail)),
                     !.pc = IF ok THEN next ELSE "done",
                     !.exit = IF ok THEN @ ELSE 1]

\* -CleanOnly: Initialize-Project, Clear-WorkingDirectories, return
RunCleanOnly ==
  /\ run.pc = "start" /\ run.CleanOnly
  /\ \E removesBuild, removesExtracted \in BOOLEAN :
       /\ outputFile' = IF removesBuild THEN NoFile ELSE outputFile
       /\ extracted' = RemoveContents(extracted, removesExtracted)
       /\ run' = [run EXCEPT !.steps = <<Step("initialize", TRUE, extracted),
                                         Step("clean", TRUE, extracted)>>,
                             !.pc = "done", !.exit = 0]
  /\ UNCHANGED <<builderKept, lastExitCode, mounted, ext>>

\* Test-Prerequisites of run.ps1; when it passes, tsc --version was the last
\* native command and it exited with 0
RunPrerequisites ==
  /\ run.pc = "start" /\ ~run.CleanOnly
  /\ \E ok \in BOOLEAN :
       /\ Advance("prerequisites", ok, ok, "initialize")
       /\ lastExitCode' = IF ok THEN 0 ELSE lastExitCode
  /\ UNCHANGED <<builderKept, outputFile, extracted, mounted, ext>>

\* Initialize-Project: creates the missing directories; an error of New-Item
\* ends in the catch block of Main
RunInitialize ==
  /\ run.pc = "initialize"
  /\ \E ok \in BOOLEAN :
       /\ Advance("initialize", ok, extracted, "clean")
       /\ extracted' = IF ok /\ ~extracted.exists THEN EmptyDir ELSE extracted
  /\ UNCHANGED <<builderKept, outputFile, lastExitCode, mounted, ext>>

\* Clear-WorkingDirectories: unattended\build and iso\extracted
RunClear ==
  /\ run.pc = "clean"
  /\ \E removesBuild, removesExtracted \in BOOLEAN :
       /\ outputFile' = IF removesBuild THEN NoFile ELSE outputFile
       /\ extracted' = RemoveContents(extracted, removesExtracted)
       /\ Advance("clean", TRUE, extracted, "build")
  /\ UNCHANGED <<builderKept, lastExitCode, mounted, ext>>

\* Build-AutounattendFile: tsc, then node dist\unattended\merge.js, which
\* builds with a new builder and exits with 0 when build() reports success;
\* how: tsc exits with an error, an error record of tsc or of node ends in a
\* catch block, the compiled script is missing, or all of them ran
RunBuild ==
  /\ run.pc = "build"
  /\ \E how \in {"ok", "tsc_fails", "tsc_throws", "no_script", "node_throws"},
        outcome \in {"ok", "open_throws"} :
       /\ how \in {"tsc_fails", "tsc_throws", "no_script"}
          \/ ~(templateFile.exists /\ templateFile.readable) => outcome = "ok"
       /\ IF how \in {"tsc_fails", "tsc_throws", "no_script"}
          THEN /\ lastExitCode' = IF how = "tsc_fails" THEN 2 ELSE lastExitCode
               /\ Advance("build", FALSE, [ran |-> FALSE, how |-> how], "extract")
               /\ UNCHANGED outputFile
          ELSE \E r \in {build(validator, templateFile, passFiles, outputFile, NewStats,
                               outcome, FALSE, 0, 1)} :
                 /\ outputFile' = r.output
                 /\ lastExitCode' = MergeExitCode(r)
                 /\ Advance("build", how = "ok" /\ MergeExitCode(r) = 0 /\ r.output.exists,
                            [ran |-> TRUE, how |-> how, success |-> r.success,
                             isValid |-> r.isValid, exit |-> MergeExitCode(r),
                             output |-> r.output],
                            "extract")
  /\ UNCHANGED <<builderKept, extracted, mounted, ext>>

\* the extraction step of Main: Invoke-IsoExtraction unless -SkipExtraction
RunExtraction ==
  /\ run.pc = "extract"
  /\ IF run.SkipExtraction
     THEN /\ Advance("extract", TRUE, [skipped |-> TRUE], "inject")
          /\ UNCHANGED <<extracted, lastExitCode, mounted>>
     ELSE \E env \in RunExtractEnvs :
            \E r \in {extractIso(run.IsoPath, extracted, lastExitCode, mounted, env)} :
              /\ extracted' = r.extracted
              /\ lastExitCode' = r.lastExitCode
              /\ mounted' = r.mounted
              /\ Advance("extract", Truthy(InvokeScript(r)),
                         [skipped |-> FALSE, env |-> env, ret |-> r,
                          returned |-> InvokeScript(r)], "inject")
  /\ UNCHANGED <<builderKept, outputFile, ext>>

\* Invoke-AutounattendInjection
RunInjection ==
  /\ run.pc = "inject"
  /\ \E env \in InjectEnvs :
       \E r \in {injectAutounattend(extracted, outputFile, lastExitCode, mounted, env)} :
         /\ extracted' = r.extracted
         /\ lastExitCode' = r.lastExitCode
         /\ Advance("inject", Truthy(InvokeScript(r)),
                    [dir |-> extracted, answer |-> outputFile, env |-> env, ret |-> r,
                     returned |-> InvokeScript(r)], "isobuild")
  /\ UNCHANGED <<builderKept, outputFile, mounted, ext>>

\* the ISO build step of Main: Invoke-IsoBuild unless -SkipBuild
RunIsoBuild ==
  /\ run.pc = "isobuild"
  /\ IF run.SkipBuild
     THEN /\ Advance("isobuild", TRUE, [skipped |-> TRUE], "summary")
          /\ UNCHANGED lastExitCode
     ELSE \E env \in BuildIsoEnvs :
            \E r \in {buildIso(extracted, lastExitCode, mounted, env)} :
              /\ lastExitCode' = r.lastExitCode
              /\ run' = [run EXCEPT !.steps = Append(@, Step("isobuild", Truthy(InvokeScript(r)),
                                                            [skipped |-> FALSE, env |-> env, ret |-> r,
                                                             returned |-> InvokeScript(r)])),
                                    !.pc = IF Truthy(InvokeScript(r)) THEN "summary" ELSE "done",
                                    !.exit = IF Truthy(InvokeScript(r)) THEN @ ELSE 1,
                                    !.iso = r.ending = "ended"]
  /\ UNCHANGED <<builderKept, outputFile, extracted, mounted, ext>>

\* Show-Summary, and Main returns
RunSummary ==
  /\ run.pc = "summary"
  /\ run' = [run EXCEPT !.steps = Append(@, Step("summary", TRUE, run.iso)),
                        !.pc = "done", !.exit = 0]
  /\ UNCHANGED <<builderKept, outputFile, extracted, lastExitCode, mounted, ext>>

NextRun ==
  \/ RunCleanOnly \/ RunPrerequisites \/ RunInitialize \/ RunClear \/ RunBuild
  \/ RunExtraction \/ RunInjection \/ RunIsoBuild \/ RunSummary

SpecRun == InitRun /\ [][NextRun]_vars

(***************************************************************************)
(* Two merge.js processes build side by side against the same output path. *)
(* Each runs build() on a builder of its own; the steps of one process are *)
(* interleaved with those of the other and with a change of a fragment.    *)
(***************************************************************************)
Procs == {1, 2}
Started == [pc |-> "start", success |-> FALSE, text |-> <<>>, passesProcessed |-> 0,
            fileSize |-> 0, statted |-> <<>>, seen |-> <<>>, isValid |-> FALSE]

InitRace ==
  /\ templateFile = File(<<"DECL", "ROOT">> \o Placeholder("windowspe")
                           \o Placeholder("oobesystem") \o <<"CLOSE">>)
  /\ passFiles = TwoFragments
  /\ outputFile \in OldOutputs
  /\ validator \in BOOLEAN
  /\ buildStats = NewStats
  /\ calls = 0
  /\ results = <<>>
  /\ edits = 0
  /\ vdoc = NoFile
  /\ vres = <<>>
  /\ run = NoRun
  /\ extracted = NoDir
  /\ lastExitCode = 0
  /\ mounted = FALSE
  /\ ext = <<>>
  /\ race = [p \in Procs |-> Started]
  /\ UtilsIdle

raceKept == <<templateFile, passFiles, validator, buildStats, calls, results, edits,
              vdoc, vres, run, extracted, lastExitCode, mounted, ext, mon, cfg>>

\* readTemplate() and the loop over the passes
RaceAssemble(p) ==
  /\ race[p].pc = "start"
  /\ \E tpl \in {readTemplate(templateFile)} :
       IF tpl.threw
       THEN race' = [race EXCEPT ![p].pc = "done"]
       ELSE \E sub \in {SubstitutePasses(tpl.content, passFiles, 1)} :
              race' = [race EXCEPT ![p].pc = "assembled", ![p].text = sub.text,
                                   ![p].passesProcessed = sub.counted]
  /\ UNCHANGED <<raceKept, outputFile>>

\* fs.writeFileSync: the open
RaceOpen(p) ==
  /\ race[p].pc = "assembled"
  /\ outputFile' = OpenTruncate(outputFile)
  /\ race' = [race EXCEPT ![p].pc = "opened"]
  /\ UNCHANGED raceKept

\* fs.writeFileSync: the write
RaceWrite(p) ==
  /\ race[p].pc = "opened"
  /\ outputFile' = WriteAtStart(outputFile, race[p].text)
  /\ race' = [race EXCEPT ![p].pc = "written"]
  /\ UNCHANGED raceKept

\* fs.statSync(this.outputPath).size
RaceStat(p) ==
  /\ race[p].pc = "written"
  /\ race' = [race EXCEPT ![p].pc = "statted", ![p].statted = outputFile.data,
                          ![p].fileSize = ByteLength(outputFile.data)]
  /\ UNCHANGED <<raceKept, outputFile>>

\* validateXml(), which reads the file at the output path, and the return
RaceValidate(p) ==
  /\ race[p].pc = "statted"
  /\ \E v \in {validateXml(validator, outputFile, FALSE)} :
       race' = [race EXCEPT ![p].pc = "done", ![p].success = TRUE,
                            ![p].seen = outputFile.data, ![p].isValid = v.isValid]
  /\ UNCHANGED <<raceKept, outputFile>>

NextRace ==
  \/ \E p \in Procs : RaceAssemble(p)
  \/ \E p \in Procs : RaceOpen(p)
  \/ \E p \in Procs : RaceWrite(p)
  \/ \E p \in Procs : RaceStat(p)
  \/ \E p \in Procs : RaceValidate(p)
  \/ EditPass

SpecRace == InitRace /\ [][NextRace]_vars

(***************************************************************************)
(* Vocabulary of the properties.                                           *)
(***************************************************************************)
Range(seq) == { seq[i] : i \in 1..Len(seq) }
CallRecords == Range(results)

\* the {{...}} tokens of a text, and those that are no recognized placeholder
Tokens(text) == Range(MatchPlaceholders(text, 1))
RecognizedTokens == { Placeholder(p) : p \in Passes }
UnrecognizedTokens(text) == Tokens(text) \ RecognizedTokens

\* how often pat occurs in text
Occurrences(text, pat) ==
  Cardinality({ i \in 1..(Len(text) - Len(pat) + 1) : SubSeq(text, i, i + Len(pat) - 1) = pat })

HasSymbol(text, syms) == \E i \in 1..Len(text) : text[i] \in syms
BraceFree(text) == ~HasSymbol(text, {"{", "}"})
PlainText(text) == ~HasSymbol(text, {"{", "}", "$"})

\* every brace of the text belongs to a token {{NAME}} whose NAME has no brace
BracesDelimited(text) ==
  /\ \A t \in Tokens(text) : BraceFree(SubSeq(t, 3, Len(t) - 2))
  /\ Cardinality({ i \in 1..Len(text) : text[i] \in {"{", "}"} })
       = 4 * Len(MatchPlaceholders(text, 1))

\* a call whose template was read
Assembled(c) == c.template.exists /\ c.template.readable
\* the fragments a call found and read
ReadPasses(c) == { p \in Passes : c.passes[p].exists /\ c.passes[p].readable }
\* the text readPassFile hands back for pass p in call c
Fragment(c, p) == IF p \in ReadPasses(c) THEN c.passes[p].data ELSE <<>>

\* the three markers are there, and the {{...}} tokens are the seven
\* recognized placeholders, once each
WellFormedWithAll(text) ==
  /\ \E i \in 1..Len(text) : text[i] = "DECL"
  /\ \E i \in 1..Len(text) : text[i] = "ROOT"
  /\ \E i \in 1..Len(text) : text[i] = "CLOSE"
  /\ Tokens(text) = RecognizedTokens
  /\ \A p \in Passes : Occurrences(text, Placeholder(p)) = 1
  /\ Cardinality({ i \in 1..Len(text) : text[i] \in {"{", "}"} }) = 4 * Len(PassOrder)

AllPresentNonEmpty(c) == \A p \in Passes : p \in ReadPasses(c) /\ c.passes[p].data # <<>>

C2_MissingFragment ==
  \A c \in CallRecords :
    Assembled(c) =>
      \A p \in Passes :
        ~c.passes[p].exists =>
          /\ Event("warn: Pass file not found", p) \in Range(c.ret.events)
          /\ Event("readFileSync", p) \notin Range(c.ret.events)
          /\ c.ret.buildStats.passesProcessed - c.statsBefore.passesProcessed
               = Cardinality(ReadPasses(c))
          /\ p \notin ReadPasses(c)
          /\ c.ret.success = (c.outcome = "ok")
          /\ ( /\ c.ret.success
               /\ BracesDelimited(c.template.data)
               /\ \A q \in Passes : PlainText(Fragment(c, q)) )
             => /\ Occurrences(c.ret.output.data, Placeholder(p))
                     = IF Occurrences(c.template.data, Placeholder(p)) = 0 THEN 0
                       ELSE Occurrences(c.template.data, Placeholder(p)) - 1
                /\ Len(c.ret.output.data)
                     = Len(c.template.data)
                       - 5 * Cardinality({ q \in Passes :
                                             Occurrences(c.template.data, Placeholder(q)) > 0 })
                       + Cardinality({ q \in ReadPasses(c) :
                                         /\ Occurrences(c.template.data, Placeholder(q)) > 0
                                         /\ Len(c.passes[q].data) = 1 })

C2_Witness ==
  \E c \in CallRecords :
    /\ Assembled(c) /\ c.ret.success
    /\ ~c.passes["specialize"].exists
    /\ Occurrences(c.template.data, Placeholder("specialize")) = 1
    /\ \A q \in Passes : PlainText(Fragment(c, q))

\* C3.  When the template file is missing, build() returns success == false
\* with the error "Template file not found: <template path>", and the file at
\* the output path is what it was before the call.
C3_MissingTemplate ==
  \A c \in CallRecords :
    ~c.template.exists =>
      /\ ~c.ret.success
      /\ "error" \in c.ret.defined
      /\ c.ret.error = [msg |-> "Template file not found", path |-> TemplatePath]
      /\ c.ret.output = c.outBefore
      /\ Event("writeFileSync", "output") \notin Range(c.ret.events)

C3_Witness ==
  \E i \in 1..Len(results) :
    /\ i > 1
    /\ results[i - 1].ret.success
    /\ ~results[i].template.exists
    /\ results[i].outBefore = results[i - 1].ret.output
    /\ outputFile = results[i - 1].ret.output
    /\ outputFile.exists

\* C4.  When fs.writeFileSync throws, build() does not validate: no validator
\* is invoked, the result has success == false, the error of the write and the
\* buildStats gathered so far (the fragments read are counted, fileSize is not
\* updated), and no isValid.
C4_WriteFailure ==
  \A c \in CallRecords :
    (Assembled(c) /\ c.outcome \in {"open_throws", "write_throws"}) =>
      /\ ~c.ret.success
      /\ c.ret.defined = {"success", "error", "buildStats"}
      /\ c.ret.error = [msg |-> "writeFileSync failed", path |-> OutputPath]
      /\ \A e \in Range(c.ret.events) :
           e.op \notin {"validateAutounattendXml", "basic validation"}
      /\ c.ret.validation = NoValidation
      /\ c.ret.buildStats.passesProcessed
           = c.statsBefore.passesProcessed + Cardinality(ReadPasses(c))
      /\ c.ret.buildStats.fileSize = c.statsBefore.fileSize

C4_Witness ==
  \E c \in CallRecords :
    /\ Assembled(c) /\ c.outcome = "write_throws"
    /\ ReadPasses(c) # {}
    /\ c.enhanced
    /\ ~c.ret.success

\* C5.  Two successful build() calls given the same template and fragment
\* files produce the same output file, the same fileSize and the same
\* validation result (isValid, errors, warnings, suggestions).
C5_Idempotent ==
  \A i, j \in 1..Len(results) :
    ( /\ i < j
      /\ results[i].template = results[j].template
      /\ results[i].passes = results[j].passes
      /\ results[i].ret.success /\ results[j].ret.success )
    => /\ results[i].ret.output = results[j].ret.output
       /\ results[i].ret.buildStats.fileSize = results[j].ret.buildStats.fileSize
       /\ results[i].ret.isValid = results[j].ret.isValid
       /\ results[i].ret.validation = results[j].ret.validation
       /\ results[i].ret.warnings = results[j].ret.warnings
       /\ results[i].ret.validationReport = results[j].ret.validationReport

C5_Witness ==
  \E i, j \in 1..Len(results) :
    /\ i < j
    /\ results[i].template = results[j].template
    /\ results[i].passes = results[j].passes
    /\ results[i].ret.success /\ results[j].ret.success
    /\ results[j].call = 2
    /\ results[j].enhanced
    /\ results[j].ret.buildStats.fileSize > 0
    /\ results[i].outBefore # results[j].outBefore

\* C6 as stated.  After every build() call, also a second one on the same
\* builder, passesProcessed is the number of fragment files found and read
\* during that call.
C6_AsStated ==
  \A c \in CallRecords :
    c.ret.buildStats.passesProcessed
      = IF Assembled(c) THEN Cardinality(ReadPasses(c)) ELSE 0

\* C7.  In every ValidationResult of validateAutounattendXml, also on the
\* file-not-found and the exception path, isValid is false exactly when the
\* errors list is non-empty, whatever the warnings and suggestions are.
C7_ValidIffNoErrors ==
  \A v \in Range(vres) : v.result.isValid = (v.result.errors = <<>>)

C7_Witness ==
  \E v \in Range(vres) :
    /\ vdoc.exists /\ ~v.readThrows
    /\ v.result.isValid
    /\ Len(v.result.warnings) > 2
    /\ Len(v.result.suggestions) > 0

\* C8 as stated.  If a {{...}} token is left in the assembled document, the
\* build result has isValid == false, with the enhanced validator (which lists
\* the tokens in an error) and with the basic fallback alike.
C8_AsStated ==
  \A c \in CallRecords :
    (c.ret.success /\ ~c.readThrows /\ Tokens(c.ret.output.data) # {}) =>
      /\ ~c.ret.isValid
      /\ c.enhanced =>
           \E e \in Range(c.ret.validation.errors) :
             /\ e.msg = "Unreplaced placeholders found"
             /\ Range(e.detail) = Tokens(c.ret.output.data)

\* the marker is a symbol of the document
HasMarker(doc, sym) == \E i \in 1..Len(doc) : doc[i] = sym

\* C9.  Validation of a document adds "Missing XML declaration", "Missing or
\* invalid unattend root element", "Missing closing unattend tag" exactly for
\* the marker the text lacks, a lacking marker makes isValid false, and with
\* all three markers and no {{...}} token left the errors list is empty.
C9_StructuralMarkers ==
  \A v \in Range(vres) :
    (vdoc.exists /\ ~v.readThrows) =>
      LET msgs == { e.msg : e \in Range(v.result.errors) }
      IN /\ ("Missing XML declaration" \in msgs) = ~HasMarker(vdoc.data, "DECL")
         /\ ("Missing or invalid unattend root element" \in msgs) = ~HasMarker(vdoc.data, "ROOT")
         /\ ("Missing closing unattend tag" \in msgs) = ~HasMarker(vdoc.data, "CLOSE")
         /\ (\E m \in {"DECL", "ROOT", "CLOSE"} : ~HasMarker(vdoc.data, m)) => ~v.result.isValid
         /\ ( /\ \A m \in {"DECL", "ROOT", "CLOSE"} : HasMarker(vdoc.data, m)
              /\ Tokens(vdoc.data) = {} )
            => v.result.errors = <<>>

C9_Witness ==
  \E v \in Range(vres) :
    /\ vdoc.exists /\ ~v.readThrows
    /\ HasMarker(vdoc.data, "DECL") /\ HasMarker(vdoc.data, "ROOTX") /\ HasMarker(vdoc.data, "CLOSE")
    /\ ~HasMarker(vdoc.data, "ROOT")
    /\ Len(v.result.errors) = 1

\* C10 as stated.  Whatever the fragments hold, the unrecognized {{...}}
\* tokens of the output are those of the template.
C10_AsStated ==
  \A c \in CallRecords :
    (Assembled(c) /\ c.ret.success) =>
      UnrecognizedTokens(c.ret.output.data) = UnrecognizedTokens(c.template.data)

\* C10, amended.  For fragments that hold no '{' and no '}', and a template all
\* of whose braces belong to {{NAME}} tokens, the unrecognized {{...}} tokens
\* of the output are those of the template.
C10_UnrecognizedKept ==
  \A c \in CallRecords :
    ( /\ Assembled(c) /\ c.ret.success
      /\ BracesDelimited(c.template.data)
      /\ \A p \in Passes : BraceFree(Fragment(c, p)) )
    => UnrecognizedTokens(c.ret.output.data) = UnrecognizedTokens(c.template.data)

C10_Witness ==
  \E c \in CallRecords :
    /\ Assembled(c) /\ c.ret.success
    /\ BracesDelimited(c.template.data)
    /\ \A p \in Passes : BraceFree(Fragment(c, p))
    /\ UnrecognizedTokens(c.template.data) # {}
    /\ Tokens(c.template.data) \cap RecognizedTokens # {}
    /\ \E p \in Passes : HasSymbol(Fragment(c, p), {"$"})

\* the template with every recognized placeholder replaced, where it stands,
\* by the fragment read for its pass, and every other symbol kept
RECURSIVE Substituted(_, _, _)
Substituted(text, c, i) ==
  IF i > Len(text) THEN <<>>
  ELSE LET here == { p \in Passes : /\ i + 4 <= Len(text)
                                    /\ SubSeq(text, i, i + 4) = Placeholder(p) }
       IN IF here = {} THEN <<text[i]>> \o Substituted(text, c, i + 1)
          ELSE Fragment(c, CHOOSE p \in here : TRUE) \o Substituted(text, c, i + 5)

AtMostOnce(text) == \A p \in Passes : Occurrences(text, Placeholder(p)) <= 1

RECURSIVE Provenance(_, _, _, _, _)
Provenance(text, from, applied, c, k) ==
  IF k > Len(PassOrder) THEN [text |-> text, from |-> from, applied |-> applied]
  ELSE LET pass == PassOrder[k]
           pos == IndexOf(text, Placeholder(pass))
       IN IF pos = 0 THEN Provenance(text, from, applied, c, k + 1)
          ELSE LET before == SubSeq(text, 1, pos - 1)
                   after == SubSeq(text, pos + 5, Len(text))
                   put == GetSubstitution(Placeholder(pass), before, after, Fragment(c, pass), 1)
               IN Provenance(before \o put \o after,
                             SubSeq(from, 1, pos - 1) \o [i \in 1..Len(put) |-> pass]
                               \o SubSeq(from, pos + 5, Len(from)),
                             applied \cup {pass}, c, k + 1)

\* the symbols of text that come from src, in their order
RECURSIVE Kept(_, _, _, _)
Kept(text, from, src, i) ==
  IF i > Len(text) THEN <<>>
  ELSE (IF from[i] = src THEN <<text[i]>> ELSE <<>>) \o Kept(text, from, src, i + 1)

\* C12 as stated.  The text inserted for a pass is in the output exactly as it
\* was read: the substitutions of the later passes leave it alone, also when it
\* holds the placeholder of a later pass (checked for templates whose braces
\* all belong to {{NAME}} tokens and fragments without a '$').
C12_AsStated ==
  \A c \in CallRecords :
    ( /\ Assembled(c) /\ c.ret.success
      /\ BracesDelimited(c.template.data)
      /\ \A p \in Passes : ~HasSymbol(Fragment(c, p), {"$"}) )
    => LET prov == Provenance(c.template.data, [i \in 1..Len(c.template.data) |-> "template"],
                              {}, c, 1)
       IN /\ prov.text = c.ret.output.data
          /\ \A p \in prov.applied : Kept(prov.text, prov.from, p, 1) = Fragment(c, p)

\* the stage of build() an event belongs to
StageOf(e) ==
  CASE e.op \in {"validateAutounattendXml", "basic validation"} -> "Validate"
    [] e.op = "info: Build Summary" -> "Report"
    [] e.op = "error: Build failed" -> "Fail"
    [] OTHER -> "Assemble"

\* the stages a call went through, one after the other
RECURSIVE Stages(_)
Stages(ev) ==
  IF ev = <<>> THEN <<>>
  ELSE LET rest == Stages(Tail(ev))
       IN IF rest # <<>> /\ Head(rest) = StageOf(Head(ev)) THEN rest
          ELSE <<StageOf(Head(ev))>> \o rest

PassIndex(p) == CHOOSE k \in 1..Len(PassOrder) : PassOrder[k] = p
Positions(ev, ops) == { i \in 1..Len(ev) : ev[i].op \in ops }
AssemblyThrew(ev) ==
  \E i \in 1..Len(ev) : ev[i].op \in {"error: Error reading template file",
                                        "error: Error writing output file"}

\* C13.  Every build() call goes Assemble, Validate, Report or Assemble, Fail:
\* the template is read before any fragment, the fragments are visited in the
\* declared order, the output is written after the last fragment and before
\* validation, validation runs exactly when the write succeeded, and the call
\* fails exactly when assembly threw.
C13_Stages ==
  \A c \in CallRecords :
    LET ev == c.ret.events
        frag == Positions(ev, {"existsSync"}) \ {1}
        write == Positions(ev, {"writeFileSync", "writeFileSync throws"})
        valid == Positions(ev, {"validateAutounattendXml", "basic validation"})
    IN /\ Stages(ev) \in { <<"Assemble", "Validate", "Report">>, <<"Assemble", "Fail">> }
       /\ ev[1] = Event("existsSync", "template")
       /\ \A i \in frag : ev[i].arg \in Passes
       /\ \A i, j \in frag : i < j => PassIndex(ev[i].arg) < PassIndex(ev[j].arg)
       /\ Assembled(c) => { ev[i].arg : i \in frag } = Passes
       /\ ~Assembled(c) => frag = {} /\ write = {}
       /\ \A i \in frag, j \in Positions(ev, {"readFileSync", "readFileSync throws"}) :
            ev[j].arg = "template" => j < i
       /\ \A w \in write : \A i \in frag : i < w
       /\ \A v \in valid : \E w \in write : w < v /\ ev[w].op = "writeFileSync"
       /\ (valid # {}) = (Assembled(c) /\ c.outcome = "ok")
       /\ Cardinality(valid) <= 1
       /\ c.ret.success = (valid # {})
       /\ ~c.ret.success = AssemblyThrew(ev)

C13_Witness ==
  /\ \E c \in CallRecords :
       /\ c.ret.success /\ c.enhanced
       /\ Stages(c.ret.events) = <<"Assemble", "Validate", "Report">>
       /\ \E p \in Passes : ~c.passes[p].exists
  /\ \E c \in CallRecords :
       /\ Assembled(c) /\ c.outcome = "write_throws"
       /\ Stages(c.ret.events) = <<"Assemble", "Fail">>

\* C14 as stated.  Every result with success == true has the output path, an
\* isValid flag, a defined list of warnings and the buildStats record, with
\* the enhanced validator and with the basic fallback alike.
C14_AsStated ==
  \A c \in CallRecords :
    c.ret.success =>
      {"outputPath", "isValid", "warnings", "buildStats"} \subseteq c.ret.defined

RECURSIVE InnerValue(_, _)
InnerValue(match, i) ==
  IF i >= Len(match) THEN <<>> ELSE TagText(match[i]) \o InnerValue(match, i + 1)

\* the warnings the password rule asks for, match by match
RECURSIVE PasswordRule(_)
PasswordRule(matches) ==
  IF matches = <<>> THEN <<>>
  ELSE LET v == InnerValue(Head(matches), 2)
           tested == IF isBase64(v) THEN LowerCodes(Base64Decode(v)) ELSE LowerCodes(CharCodes(v))
       IN (IF ~isBase64(v)
           THEN <<"Plaintext password detected - consider using Base64 encoding">> ELSE <<>>)
          \o (IF \E weak \in weakPasswords : IndexOf(tested, CharCodes(weak)) > 0
              THEN <<"Weak password detected">> ELSE <<>>)
          \o PasswordRule(Tail(matches))

IsPasswordWarning(d) ==
  d.msg \in {"Plaintext password detected - consider using Base64 encoding",
             "Weak password detected"}
PasswordMessages(r) ==
  LET ws == SelectSeq(r.warnings, IsPasswordWarning) IN [i \in 1..Len(ws) |-> ws[i].msg]

\* C15 as stated.  For every match of <Password>v</Password> in the document,
\* in whatever case its tags are written, there is a plaintext warning exactly
\* when v does not come back from Base64 decoding and encoding, and a weak
\* warning exactly when the value (decoded when v is Base64) holds, in any
\* case, one of password, 123456, admin, user.
C15_AsStated ==
  \A v \in Range(vres) :
    (vdoc.exists /\ ~v.readThrows) =>
      PasswordMessages(v.result) = PasswordRule(MatchPasswords(vdoc.data, 1))

(***************************************************************************)
(* The runs of extract-iso.ps1.                                            *)
(***************************************************************************)
ExtractRuns == Range(ext)
Calls(events, op) == { i \in 1..Len(events) : events[i].op = op }
MountReturnedPath(e) == Event("Mount-IsoFile", "path") \in Range(e.ret.events)

\* C19: in every run of extract-iso.ps1 in which Mount-IsoFile returned a
\* mount path, Dismount-IsoFile is called exactly once, after Copy-IsoContents
\* was entered and as the last call before the script ends (whether the copy
\* returned true, returned false or was left by an error); in every run in
\* which Mount-IsoFile returned no path, Dismount-IsoFile is not called.
C19_Dismount ==
  \A e \in ExtractRuns :
    LET ev == e.ret.events
        dismounts == Calls(ev, "Dismount-IsoFile")
    IN IF MountReturnedPath(e)
       THEN /\ Cardinality(dismounts) = 1
            /\ \A i \in dismounts :
                 /\ \E j \in Calls(ev, "Copy-IsoContents") : j < i
                 /\ \A k \in (i + 1)..Len(ev) : ev[k].op = "exit"
       ELSE dismounts = {}

\* a run in which the image was mounted, the copy returned false, the script
\* did exit 1 and the image was dismounted on the way out
C19_Witness ==
  \E e \in ExtractRuns :
    /\ MountReturnedPath(e)
    /\ Event("Copy-IsoContents", "false") \in Range(e.ret.events)
    /\ e.ret.ending = "exit1"
    /\ Calls(e.ret.events, "Dismount-IsoFile") # {}
    /\ ~e.ret.mounted

\* C20 as stated: when robocopy reports no failed copies with exit code 0 or 1
\* Copy-IsoContents returns true, and when robocopy reports failed copies
\* (exit code 8 and above) Copy-IsoContents returns false, the script does
\* exit 1 and it does not log a successful extraction.
C20_AsStated ==
  \A e \in ExtractRuns :
    LET ev == Range(e.ret.events)
    IN /\ Event("robocopy", "no failed copies") \in ev /\ e.ret.lastExitCode <= 1
            => Event("Copy-IsoContents", "true") \in ev
       /\ Event("robocopy", "failed copies") \in ev
            => /\ Event("Copy-IsoContents", "false") \in ev
               /\ e.ret.ending = "exit1"
               /\ Event("SUCCESS", "ISO extraction completed successfully!") \notin ev

(***************************************************************************)
(* The run of run.ps1.                                                     *)
(***************************************************************************)
\* the places of the record of the steps at which the step name stands
Steps(name) == { k \in 1..Len(run.steps) : run.steps[k].step = name }

\* C17 as stated: when the merge script ran and the builder's validation of
\* the assembled file failed (isValid false), the merge step reports failure
\* and the file is not copied into iso\extracted by the injection step.
C17_AsStated ==
  \A b \in Steps("build") :
    run.steps[b].detail.ran /\ ~run.steps[b].detail.isValid
      => /\ ~run.steps[b].ok
         /\ \A i \in Steps("inject") : run.steps[i].detail.ret.ending # "ended"

\* C18 as stated: in a run with -SkipExtraction, iso\extracted is at the
\* injection step what it was before the run.
C18_AsStated ==
  run.SkipExtraction => \A i \in Steps("inject") : run.steps[i].detail.dir = run.before

\* a call whose template has all its braces in {{NAME}} tokens and whose
\* fragments hold no '{', '}' or '$'
PlainCall(c) ==
  /\ Assembled(c) /\ c.ret.success /\ ~c.readThrows
  /\ BracesDelimited(c.template.data)
  /\ \A p \in Passes : PlainText(Fragment(c, p))

\* the recognized placeholders a template holds more than once
Repeated(text) == { p \in Passes : Occurrences(text, Placeholder(p)) > 1 }

\* how often the placeholder of pass p stands in the output of call c
Remaining(c, p) == Occurrences(c.ret.output.data, Placeholder(p))

\* C21 as stated.  When a recognized placeholder stands k > 1 times in the
\* template (fragments without braces or '$'), the output holds it k - 1
\* times, and validation reports the build as invalid, the enhanced validator
\* listing the leftover tokens in an error.
C21_AsStated ==
  \A c \in CallRecords :
    PlainCall(c) =>
      \A p \in Repeated(c.template.data) :
        /\ Remaining(c, p) = Occurrences(c.template.data, Placeholder(p)) - 1
        /\ ~c.ret.isValid
        /\ c.enhanced =>
             \E e \in Range(c.ret.validation.errors) :
               /\ e.msg = "Unreplaced placeholders found"
               /\ Placeholder(p) \in Range(e.detail)

\* C22 as stated.  For a template all of whose braces belong to {{NAME}}
\* tokens, each recognized placeholder at most once, and fragments without
\* braces (a '$' may stand in them), the output written is the template with
\* each recognized placeholder replaced, symbol for symbol, by the content of
\* its fragment file.
C22_AsStated ==
  \A c \in CallRecords :
    ( /\ Assembled(c) /\ c.ret.success
      /\ AtMostOnce(c.template.data)
      /\ BracesDelimited(c.template.data)
      /\ \A p \in Passes : /\ c.passes[p].exists => c.passes[p].readable
                            /\ BraceFree(Fragment(c, p)) )
    => c.ret.output.data = Substituted(c.template.data, c, 1)

\* the fragment files of a call that exist but whose read throws
UnreadablePasses(c) == { p \in Passes : c.passes[p].exists /\ ~c.passes[p].readable }

\* C30: in a build() call whose template was read and whose write succeeded,
\* a fragment file that exists but whose read throws is taken as the empty
\* string (an error is logged, the placeholder is replaced by nothing), the
\* pass is not counted in passesProcessed, every later pass is still looked
\* up, the output is written and the call returns success == true.
C30_UnreadableFragment ==
  \A c \in CallRecords :
    (Assembled(c) /\ c.outcome = "ok") =>
      \A p \in UnreadablePasses(c) :
        LET ev == c.ret.events
        IN /\ Fragment(c, p) = <<>>
           /\ \E i \in 1..Len(ev) :
                /\ ev[i] = Event("error: Error reading pass file", p)
                /\ \A k \in (PassIndex(p) + 1)..Len(PassOrder) :
                     \E j \in (i + 1)..Len(ev) : ev[j] = Event("existsSync", PassOrder[k])
           /\ c.ret.buildStats.passesProcessed
                = c.statsBefore.passesProcessed + Cardinality(ReadPasses(c))
           /\ (PlainCall(c) /\ AtMostOnce(c.template.data))
                => /\ Occurrences(c.ret.output.data, Placeholder(p)) = 0
                   /\ c.ret.output.data = Substituted(c.template.data, c, 1)
           /\ c.ret.success
           /\ c.ret.output.exists
           /\ outputFile = c.ret.output

\* the first pass is unreadable in a template holding all seven placeholders:
\* the six others are inserted and counted
C30_Witness ==
  \E c \in CallRecords :
    /\ c.template.data = <<"DECL", "ROOT">> \o AllPlaceholders \o <<"CLOSE">>
    /\ UnreadablePasses(c) = {"windowspe"}
    /\ c.ret.success
    /\ c.ret.buildStats.passesProcessed = 6
    /\ c.ret.output.data = <<"DECL", "ROOT", "A", "A", "A", "A", "A", "A", "CLOSE">>

\* the matches <Password>v</Password>, tags in this case, whose value v is
\* literally one of the weak passwords
WeakLiterals(matches) ==
  { i \in 1..Len(matches) :
      /\ Head(matches[i]) = "PW_OPEN"
      /\ matches[i][Len(matches[i])] = "PW_CLOSE"
      /\ InnerValue(matches[i], 2) \in weakPasswords }
IsWeakWarning(d) == d.msg = "Weak password detected"

\* C23 as stated.  Every element <Password>v</Password> whose value v is
\* literally password, 123456, admin or user yields a 'Weak password detected'
\* warning: the result holds at least as many of them as there are such
\* elements.
C23_AsStated ==
  \A v \in Range(vres) :
    (vdoc.exists /\ ~v.readThrows) =>
      Len(SelectSeq(v.result.warnings, IsWeakWarning))
        >= Cardinality(WeakLiterals(MatchPasswords(vdoc.data, 1)))

Messages(diags) == [i \in 1..Len(diags) |-> diags[i].msg]
IfThen(cond, msg) == IF cond THEN <<msg>> ELSE <<>>
CountOf(doc, syms) == Cardinality({ i \in 1..Len(doc) : doc[i] \in syms })

\* C24: for an existing, readable document every check of
\* validateAutounattendXml runs whatever the earlier ones found.  The errors of
\* the one result are, in this order, the missing declaration, the missing
\* root-open string, the missing closing tag and the leftover placeholders,
\* each exactly when it applies; the warnings and suggestions that apply are
\* there as well (for a document without components: both recommended
\* components missing, the tag mismatch exactly when the open and close tags
\* differ in number, and the four suggestions).
C24_Accumulates ==
  \A v \in Range(vres) :
    (vdoc.exists /\ ~v.readThrows) =>
      LET d == vdoc.data
          r == v.result
      IN /\ Messages(r.errors)
              = IfThen(~HasMarker(d, "DECL"), "Missing XML declaration")
                \o IfThen(~HasMarker(d, "ROOT"), "Missing or invalid unattend root element")
                \o IfThen(~HasMarker(d, "CLOSE"), "Missing closing unattend tag")
                \o IfThen(Tokens(d) # {}, "Unreplaced placeholders found")
         /\ ~HasSymbol(d, {"SETUP", "SHELL", "PW_OPEN", "PW_OPEN_LC", "AUTOLOGON"})
              => Messages(r.warnings)
                   = IfThen(CountOf(d, {"ROOT", "ROOTX"}) # CountOf(d, {"CLOSE"}),
                            "Potential tag mismatch detected")
                     \o <<"Recommended component missing: Microsoft-Windows-Setup",
                          "Recommended component missing: Microsoft-Windows-Shell-Setup">>
         /\ Messages(r.suggestions)
              = <<"Consider adding Windows Update configuration",
                  "Consider adding international/regional settings",
                  "Consider adding explicit disk configuration",
                  "Consider configuring Windows Error Reporting settings">>

\* a document without declaration, root-open string and closing tag and with
\* a leftover placeholder: four errors, and warnings and suggestions with them
C24_Witness ==
  \E v \in Range(vres) :
    /\ vdoc.exists /\ ~v.readThrows
    /\ vdoc.data = Unrecognized
    /\ Messages(v.result.errors)
         = <<"Missing XML declaration", "Missing or invalid unattend root element",
             "Missing closing unattend tag", "Unreplaced placeholders found">>
    /\ Len(v.result.warnings) = 2
    /\ Len(v.result.suggestions) = 4

(***************************************************************************)
(* Two builds side by side.                                                *)
(***************************************************************************)
BothDone == race # NoRace /\ \A p \in Procs : race[p].pc = "done" /\ race[p].success

\* C25 as stated.  After two builds against the same output path have both
\* finished, the output file is exactly the whole text one of the two
\* assembled, and the validation result and fileSize of each build are those
\* of the file content that build found on disk.
C25_AsStated ==
  BothDone =>
    /\ \E p \in Procs : outputFile.data = race[p].text
    /\ \A p \in Procs :
         /\ race[p].fileSize = ByteLength(race[p].statted)
         /\ race[p].isValid = validateXml(validator, File(race[p].seen), FALSE).isValid

(***************************************************************************)
(* The steps of run.ps1.                                                   *)
(***************************************************************************)
\* the step at place k was not skipped by a switch
Enabled(k) ==
  ~(run.steps[k].step \in {"extract", "isobuild"} /\ run.steps[k].detail.skipped)
\* what the function of the step at place k reported: the boolean it returned
\* last (Clear-WorkingDirectories and Show-Summary return nothing and report
\* no failure)
Reported(k) ==
  LET st == run.steps[k]
  IN CASE st.step \in {"extract", "inject", "isobuild"} ->
            ~Enabled(k) \/ st.detail.returned[Len(st.detail.returned)] = "True"
       [] OTHER -> st.ok

\* C27 as stated.  When extract-iso.ps1 mounted the image, robocopy ended with
\* exit code 0 or 1 and the dismount went through, Invoke-IsoExtraction
\* reports success and Main goes on to the injection step.
C27_AsStated ==
  \A k \in Steps("extract") :
    LET st == run.steps[k]
    IN ( /\ Enabled(k)
         /\ st.detail.ret.ending = "ended"
         /\ Event("Mount-IsoFile", "path") \in Range(st.detail.ret.events)
         /\ Event("robocopy", "no failed copies") \in Range(st.detail.ret.events)
         /\ st.detail.ret.lastExitCode \in {0, 1}
         /\ Event("Dismount-IsoFile", "ok") \in Range(st.detail.ret.events) )
       => /\ Reported(k)
          /\ st.ok
          /\ run.pc # "done" \/ Len(run.steps) > k

StepOrder == <<"prerequisites", "initialize", "clean", "build", "extract", "inject",
               "isobuild", "summary">>

\* C26 as stated.  In a run without -CleanOnly the steps taken are, in this
\* order, the first ones of prerequisites, initialization, clean, build,
\* extraction, injection, ISO build and summary (extraction and ISO build left
\* out under their switches); a step is taken only if every enabled step
\* before it reported success; a step that reports failure is the last one
\* and the run ends with exit code 1; the summary is shown only when every
\* enabled step reported success.
C26_AsStated ==
  ~run.CleanOnly =>
    /\ \A k \in 1..Len(run.steps) : run.steps[k].step = StepOrder[k]
    /\ \A k \in 1..Len(run.steps) :
         /\ run.steps[k].step = "extract" => (Enabled(k) <=> ~run.SkipExtraction)
         /\ run.steps[k].step = "isobuild" => (Enabled(k) <=> ~run.SkipBuild)
         /\ \A j \in 1..(k - 1) : Reported(j)
         /\ ~Reported(k) => k = Len(run.steps) /\ run.pc = "done" /\ run.exit = 1
    /\ run.exit = 0 <=> Steps("summary") # {}

(***************************************************************************)
(* PerformanceMonitor and the monitor decorator.                           *)
(***************************************************************************)
MaxCalls == 3
Operations == {"build", "validate"}
\* what the wrapped method does: a plain method returns or throws, an async
\* one returns a promise that is fulfilled or rejected later
Behaviours == {"returns", "throws", "resolves", "rejects"}

\* the metric the closure of startMeasurement builds; performance.now() is the
\* time since the process started and is read as mon.now, which every reading
\* advances
PerformanceMetrics(operation, startTime, endTime) ==
  [operation |-> operation, startTime |-> startTime, endTime |-> endTime,
   duration |-> endTime - startTime, success |-> TRUE]

\* startMeasurement(operation): reads the clock and returns the closure, here
\* the values the closure holds; nothing is pushed onto this.metrics
startMeasurement(operation, now) == [operation |-> operation, startTime |-> now]

\* the closure returned by startMeasurement, called at time now
stopMeasurement(metrics, started, now) ==
  Append(metrics, PerformanceMetrics(started.operation, started.startTime, now))

\* this.metrics.find(m => m.operation === operation && m.endTime === 0)
FindUnfinished(metrics, operation) ==
  { k \in 1..Len(metrics) :
      /\ metrics[k].operation = operation /\ metrics[k].endTime = 0
      /\ \A j \in 1..(k - 1) : ~(metrics[j].operation = operation /\ metrics[j].endTime = 0) }

markFailure(metrics, operation, now) ==
  IF FindUnfinished(metrics, operation) = {} THEN metrics
  ELSE LET k == CHOOSE i \in FindUnfinished(metrics, operation) : TRUE
       IN [metrics EXCEPT ![k].success = FALSE, ![k].endTime = now,
                          ![k].duration = now - metrics[k].startTime]

\* whether markFailure read the clock
MarksFailure(metrics, operation) == FindUnfinished(metrics, operation) # {}

\* getSummary(): the rate is kept to its whole part, which leaves every
\* comparison with 100 as it is
getSummary(metrics) ==
  LET successCount == Cardinality({ k \in 1..Len(metrics) : metrics[k].success })
  IN [metrics |-> metrics,
      successRate |-> IF Len(metrics) > 0 THEN (successCount * 100) \div Len(metrics) ELSE 0]

\* one finished call of a wrapped method: the metrics before and after it
MonitoredCall(operation, how, before, after) ==
  [operation |-> operation, how |-> how, before |-> before, after |-> after]

monitorKept == <<templateFile, passFiles, outputFile, validator, buildStats, calls, results,
                 edits, vdoc, vres, run, extracted, lastExitCode, mounted, ext, race, cfg>>

InitMon ==
  /\ BuilderIdle
  /\ ScriptsIdle

\* descriptor.value of a wrapped plain method
MonitorSync ==
  /\ Len(mon.calls) + Cardinality(mon.pending) < MaxCalls
  /\ \E operation \in Operations, how \in {"returns", "throws"} :
       LET started == startMeasurement(operation, mon.now)
           after == IF how = "returns"
                    THEN stopMeasurement(mon.metrics, started, mon.now + 1)
                    ELSE markFailure(mon.metrics, operation, mon.now + 1)
       IN mon' = [mon EXCEPT
                    !.metrics = after,
                    !.now = IF how = "returns" \/ MarksFailure(mon.metrics, operation)
                            THEN mon.now + 2 ELSE mon.now + 1,
                    !.calls = Append(mon.calls,
                                     MonitoredCall(operation, how, mon.metrics, after))]
  /\ UNCHANGED monitorKept

\* descriptor.value of a wrapped async method: the promise is returned with
\* the then and catch handlers attached
MonitorAsync ==
  /\ Len(mon.calls) + Cardinality(mon.pending) < MaxCalls
  /\ \E operation \in Operations, how \in {"resolves", "rejects"} :
       mon' = [mon EXCEPT
                 !.pending = mon.pending \cup
                             {[started |-> startMeasurement(operation, mon.now), how |-> how]},
                 !.now = mon.now + 1]
  /\ UNCHANGED monitorKept

\* the promise of a pending call is settled: the then handler calls
\* stopMeasurement, the catch handler markFailure
MonitorSettle ==
  /\ \E p \in mon.pending :
       LET operation == p.started.operation
           after == IF p.how = "resolves"
                    THEN stopMeasurement(mon.metrics, p.started, mon.now)
                    ELSE markFailure(mon.metrics, operation, mon.now)
       IN mon' = [mon EXCEPT
                    !.metrics = after,
                    !.pending = mon.pending \ {p},
                    !.now = IF p.how = "resolves" \/ MarksFailure(mon.metrics, operation)
                            THEN mon.now + 1 ELSE mon.now,
                    !.calls = Append(mon.calls,
                                     MonitoredCall(operation, p.how, mon.metrics, after))]
  /\ UNCHANGED monitorKept

NextMon == MonitorSync \/ MonitorAsync \/ MonitorSettle

SpecMon == InitMon /\ [][NextMon]_vars

\* a metric of getSummary().metrics for the operation with success == false
FailedMetric(summary, operation) ==
  \E k \in 1..Len(summary.metrics) :
    summary.metrics[k].operation = operation /\ ~summary.metrics[k].success

\* C28 as stated.  After a wrapped method threw or its promise was rejected,
\* getSummary().metrics holds a metric of the operation with success false and
\* successRate is below 100; after it returned or its promise was fulfilled,
\* exactly one metric, with success true, was added.
C28_AsStated ==
  \A k \in 1..Len(mon.calls) :
    LET c == mon.calls[k]
    IN /\ c.how \in {"throws", "rejects"} =>
            /\ FailedMetric(getSummary(c.after), c.operation)
            /\ getSummary(c.after).successRate < 100
       /\ c.how \in {"returns", "resolves"} =>
            /\ Len(c.after) = Len(c.before) + 1
            /\ SubSeq(c.after, 1, Len(c.before)) = c.before
            /\ c.after[Len(c.after)].operation = c.operation
            /\ c.after[Len(c.after)].success

(***************************************************************************)
(* ConfigManager.                                                          *)
(***************************************************************************)
MaxUpdates == 2

\* a JSON value: an object with its fields, or a string
EmptyFields == [k \in {} |-> ""]
Obj(fields) == [t |-> "obj", o |-> fields, v |-> ""]
Leaf(value) == [t |-> "leaf", o |-> EmptyFields, v |-> value]
IsObject(value) == value.t = "obj"

\* getDefaultConfig(), kept to two of its sections and three of its strings
getDefaultConfig ==
  [section \in {"userAccount", "isoSettings"} |->
     IF section = "userAccount"
     THEN Obj([key \in {"username", "password"} |->
                 IF key = "username" THEN Leaf("cloudit") ELSE Leaf("CloudIT")])
     ELSE Obj([key \in {"label"} |-> Leaf("CloudIT_Windows")])]

Only(key, value) == [k \in {key} |-> value]
Both(key1, value1, key2, value2) == [k \in {key1, key2} |-> IF k = key1 THEN value1 ELSE value2]

\* Object.assign-like merge: a key of source replaces the key of target whole
deepMerge_Shallow(target, source) ==
  [key \in DOMAIN target \cup DOMAIN source |->
     IF key \in DOMAIN source THEN source[key] ELSE target[key]]

\* deepMerge(target, source) for objects: target[key] || {} is the fields held
\* under the key when an object is held there, and {} when the key is missing
RECURSIVE deepMerge(_, _)
deepMerge(target, source) ==
  [key \in DOMAIN target \cup DOMAIN source |->
     IF key \in DOMAIN source
     THEN IF IsObject(source[key])
          THEN Obj(deepMerge(IF key \in DOMAIN target /\ IsObject(target[key])
                             THEN target[key].o ELSE EmptyFields,
                             source[key].o))
          ELSE source[key]
     ELSE target[key]]

\* JSON.stringify(config, null, 2): the text names every string by the keys
\* leading to it, and every object without fields by the keys leading to it
RECURSIVE JSONstringify(_, _)
JSONstringify(fields, path) ==
  UNION { LET value == fields[key]
              here == Append(path, key)
          IN IF ~IsObject(value) THEN {[path |-> here, t |-> "leaf", v |-> value.v]}
             ELSE IF DOMAIN value.o = {} THEN {[path |-> here, t |-> "obj", v |-> ""]}
             ELSE JSONstringify(value.o, here)
        : key \in DOMAIN fields }

\* JSON.parse(text) of a text whose top level is an object; depth is how many
\* keys were read on the way down
RECURSIVE JSONparse(_, _)
JSONparse(text, depth) ==
  [key \in { e.path[depth + 1] : e \in text } |->
     LET under == { e \in text : e.path[depth + 1] = key }
     IN IF \E e \in under : Len(e.path) = depth + 1
        THEN LET e == CHOOSE x \in under : Len(x.path) = depth + 1
             IN IF e.t = "leaf" THEN Leaf(e.v) ELSE Obj(EmptyFields)
        ELSE Obj(JSONparse(under, depth + 1))]

\* the file at configPath
NoConfigFile == [state |-> "absent", text |-> {}]
CorruptConfigFile == [state |-> "corrupt", text |-> {}]
ConfigFile(config) == [state |-> "json", text |-> JSONstringify(config, <<>>)]

\* saveConfig(config): a failing mkdirSync or writeFileSync is caught and
\* logged, and the file is taken to stay as it was
saveConfig(file, config, saves) == IF saves THEN ConfigFile(config) ELSE file

\* loadConfig()
loadConfig(file, saves) ==
  CASE file.state = "json" ->
         [config |-> deepMerge(getDefaultConfig, JSONparse(file.text, 0)), file |-> file]
    [] file.state = "absent" ->
         [config |-> getDefaultConfig, file |-> saveConfig(file, getDefaultConfig, saves)]
    [] OTHER -> [config |-> getDefaultConfig, file |-> file]

\* the configuration files met: none, one that is not JSON, an empty object,
\* one that sets a string, one that sets a string and adds a section
ConfigFiles ==
  { NoConfigFile, CorruptConfigFile, ConfigFile(EmptyFields),
    ConfigFile(Only("userAccount", Obj(Only("password", Leaf("secret"))))),
    ConfigFile(Both("isoSettings", Obj(Only("label", Leaf("Lab"))),
                    "extra", Obj(Only("flag", Leaf("on"))))) }

\* the arguments of updateConfig
Updates ==
  { Only("userAccount", Obj(Only("password", Leaf("x")))),
    Only("userAccount", Obj(Only("password", Leaf("y")))),
    Only("userAccount", Obj(Both("username", Leaf("y"), "password", Leaf("x")))),
    Both("userAccount", Obj(Only("username", Leaf("x"))),
         "isoSettings", Obj(Only("label", Leaf("x")))),
    Only("isoSettings", Obj(EmptyFields)),
    Only("extra", Obj(Only("flag", Leaf("x")))) }

\* one merge made by the manager: what it held, what was merged in, what it
\* holds now, whether the save went through and the file afterwards
Merge(kind, before, given, after, saved, file) ==
  [kind |-> kind, before |-> before, given |-> given, after |-> after, saved |-> saved,
   file |-> file]

\* new ConfigManager()
Construct(file, saves, merges) ==
  LET r == loadConfig(file, saves)
  IN [config |-> r.config, file |-> r.file,
      merges |-> Append(merges,
                        Merge("load", getDefaultConfig,
                              IF file.state = "json" THEN JSONparse(file.text, 0)
                              ELSE EmptyFields,
                              r.config, saves /\ file.state = "absent", r.file)),
      updates |-> 0]

configKept == <<templateFile, passFiles, outputFile, validator, buildStats, calls, results,
                edits, vdoc, vres, run, extracted, lastExitCode, mounted, ext, race, mon>>

InitCfg ==
  /\ BuilderIdle
  /\ run = NoRun
  /\ extracted = NoDir
  /\ lastExitCode = 0
  /\ mounted = FALSE
  /\ ext = <<>>
  /\ race = NoRace
  /\ mon = NoMon
  /\ \E file \in ConfigFiles, saves \in BOOLEAN : cfg = Construct(file, saves, <<>>)

\* updateConfig(updates)
UpdateConfig ==
  /\ cfg.updates < MaxUpdates
  /\ \E updates \in Updates, saves \in BOOLEAN :
       LET config == deepMerge(cfg.config, updates)
           file == saveConfig(cfg.file, config, saves)
       IN cfg' = [cfg EXCEPT
                    !.config = config, !.file = file, !.updates = cfg.updates + 1,
                    !.merges = Append(cfg.merges, Merge("update", cfg.config, updates, config,
                                                        saves, file))]
  /\ UNCHANGED configKept

\* the process ends and a new one constructs its ConfigManager on the file
Reconstruct ==
  /\ cfg.updates > 0
  /\ cfg.merges[Len(cfg.merges)].kind = "update"
  /\ \E saves \in BOOLEAN :
       cfg' = [Construct(cfg.file, saves, cfg.merges) EXCEPT !.updates = cfg.updates]
  /\ UNCHANGED configKept

NextCfg == UpdateConfig \/ Reconstruct

SpecCfg == InitCfg /\ [][NextCfg]_vars

\* the keys met in configurations, and the ways down through them
ConfigKeys == {"userAccount", "isoSettings", "extra", "username", "password", "label", "flag"}
ConfigPaths == { <<a>> : a \in ConfigKeys } \cup { <<a, b>> : a, b \in ConfigKeys }
Missing == [t |-> "missing", o |-> EmptyFields, v |-> ""]
\* the value found by following the keys of path, or Missing
RECURSIVE ValueAt(_, _)
ValueAt(fields, path) ==
  IF path[1] \notin DOMAIN fields THEN Missing
  ELSE IF Len(path) = 1 THEN fields[path[1]]
  ELSE IF IsObject(fields[path[1]]) THEN ValueAt(fields[path[1]].o, Tail(path))
  ELSE Missing
\* the update names the key at path, or a string above it
NamedIn(given, path) ==
  \/ ValueAt(given, path) # Missing
  \/ \E n \in 1..(Len(path) - 1) : ValueAt(given, SubSeq(path, 1, n)).t = "leaf"

====
